---- MODULE Spec2Model ----
(***************************************************************************)
(* Generative MIDI sequencer (nannou-adc21): the generator graph of        *)
(* module.rs and the runtime of sequencer.rs (command channel, periodic    *)
(* tick, MIDI output).                                                     *)
(*                                                                         *)
(* Pitches are pitch_calc values.  A LetterOctave is a record              *)
(* [letter, octave]; a Step is a rational number of semitones, written     *)
(* here as numerator and denominator.  Every step the repository's code    *)
(* builds is an integer except the draw of RandomPitchGenerator and the    *)
(* intermediate values of RampPitchGenerator.                              *)
(***************************************************************************)
EXTENDS Integers, Sequences, FiniteSets, TLC

(***************************************************************************)
(* Bounds of the model.                                                    *)
(***************************************************************************)
\* Calls of the control surface in one behaviour.
MaxSends == 2
\* MIDI messages after which the clock is no longer fired.
MaxMidi == 3
\* The draw of RandomPitchGenerator ranges over the multiples of 1/RandRes.
RandRes == 2
\* MIDI output ports the host may enumerate.
MaxPorts == 2
\* Ticks of a generator or trigger module ticked on its own.
MaxTicks == 8
\* Cycle lengths and clock divider factors of the modules ticked on their own.
MaxCycle == 4
\* Ticks of a quantizer ticked on its own.
MaxQuantizerTicks == 1

(***************************************************************************)
(* pitch_calc: Letter, LetterOctave, Step.                                 *)
(***************************************************************************)
\* The variants of Letter in declaration order, which is the order of the
\* derived Ord that sort() and > use.
LetterNames ==
    << "C", "Csh", "Db", "D", "Dsh", "Eb", "E", "F", "Fsh", "Gb", "G", "Gsh",
       "Ab", "A", "Ash", "Bb", "B" >>

Letters == { LetterNames[i] : i \in 1..Len(LetterNames) }

\* Position of a letter in the derived order.
LetterOrd(l) == CHOOSE i \in 1..Len(LetterNames) : LetterNames[i] = l

\* Letter::to_step: the semitone of a letter within its octave.
LetterToStep(l) ==
    << 0, 1, 1, 2, 3, 3, 4, 5, 6, 6, 7, 8, 8, 9, 10, 10, 11 >>[LetterOrd(l)]

\* The letter of a semitone 0..11: the sharp spelling.
StepToLetter(s) ==
    << "C", "Csh", "D", "Dsh", "E", "F", "Fsh", "G", "Gsh", "A", "Ash", "B" >>[s + 1]

LetterOctave(l, o) == [letter |-> l, octave |-> o]

\* LetterOctave::step: octave * 12 + letter step + 12 (C-1 is step 0).
StepOf(lo) == lo.octave * 12 + LetterToStep(lo.letter) + 12

\* f32::round of num/den (den > 0): to the nearest integer, halves away from zero.
Round(num, den) ==
    IF num >= 0 THEN (2 * num + den) \div (2 * den)
    ELSE -((2 * (-num) + den) \div (2 * den))

\* Step(num/den).to_letter_octave(): round, then split into letter and octave.
ToLetterOctave(num, den) ==
    LET rounded == Round(num, den)
        letter_step == rounded % 12
    IN  LetterOctave(StepToLetter(letter_step), (rounded - letter_step) \div 12 - 1)

(***************************************************************************)
(* f32 arithmetic.  A value is [sign, m, e]: sign * m * 2^e with           *)
(* 2^23 <= m < 2^24, or m = 0 for zero.  Every operation rounds its exact  *)
(* result to the nearest value, ties to the even mantissa.  The operands   *)
(* here are far from the subnormal and the infinite range.                 *)
(***************************************************************************)
F32Zero == [sign |-> 1, m |-> 0, e |-> 0]

\* The number of binary digits of n, 0 < n < 2^30.
BitLen(n) == CHOOSE k \in 1..30 : 2^(k - 1) <= n /\ n < 2^k

\* The f32 nearest to sign * (n * 2^e + tail), 0 < n < 2^30, where tail is 0,
\* or lies strictly between 0 and 2^e when sticky is set (n has then at least
\* 26 digits).
F32Round(sign, n, e, sticky) ==
    LET len == BitLen(n)
    IN  IF len <= 24
        THEN [sign |-> sign, m |-> n * 2^(24 - len), e |-> e - (24 - len)]
        ELSE LET s == len - 24
                 q == n \div 2^s
                 r == n % 2^s
                 half == 2^(s - 1)
                 up == \/ r > half
                       \/ r = half /\ sticky
                       \/ r = half /\ q % 2 = 1
                 m == IF up THEN q + 1 ELSE q
             IN  IF m = 2^24
                 THEN [sign |-> sign, m |-> 2^23, e |-> e + s + 1]
                 ELSE [sign |-> sign, m |-> m, e |-> e + s]

\* `i as f32` for an integer below 2^24 in size: exact.
F32FromInt(i) ==
    IF i = 0 THEN F32Zero
    ELSE IF i > 0 THEN F32Round(1, i, 0, FALSE)
    ELSE F32Round(-1, -i, 0, FALSE)

\* Long division: x = << rem, b, acc, k >> with acc + rem / b the quotient
\* scaled by 2^k; digits are taken until acc has 26 of them.
DivBits[x \in Nat \X Nat \X Nat \X Nat] ==
    IF x[3] >= 2^25
    THEN [acc |-> x[3], k |-> x[4], rem |-> x[1]]
    ELSE IF 2 * x[1] >= x[2]
         THEN DivBits[<< 2 * x[1] - x[2], x[2], 2 * x[3] + 1, x[4] + 1 >>]
         ELSE DivBits[<< 2 * x[1], x[2], 2 * x[3], x[4] + 1 >>]

\* a / b in f32 for integers a and b > 0 held as f32.
F32DivInt(a, b) ==
    IF a = 0 THEN F32Zero
    ELSE LET n == IF a > 0 THEN a ELSE -a
             d == DivBits[<< n % b, b, n \div b, 0 >>]
         IN  F32Round(IF a > 0 THEN 1 ELSE -1, d.acc, -d.k, d.rem # 0)

\* The leading digits of h * 2^bits + lo: x = << h, lo, bits >>, digits of lo
\* are moved to h until h has 30 of them or lo is used up.
MulBits[x \in Nat \X Nat \X Nat] ==
    IF x[3] = 0 \/ x[1] >= 2^29
    THEN [h |-> x[1], lo |-> x[2], bits |-> x[3]]
    ELSE MulBits[<< 2 * x[1] + x[2] \div 2^(x[3] - 1), x[2] % 2^(x[3] - 1), x[3] - 1 >>]

\* x * c in f32 for an integer 0 <= c < 2^12 held as f32; the exact product
\* is m * c = (mh * c + (ml * c) div 2^12) * 2^12 + (ml * c) mod 2^12.
F32MulInt(x, c) ==
    IF x.m = 0 \/ c = 0 THEN F32Zero
    ELSE LET mh == x.m \div 2^12
             ml == x.m % 2^12
             p == MulBits[<< mh * c + (ml * c) \div 2^12, (ml * c) % 2^12, 12 >>]
         IN  F32Round(x.sign, p.h, x.e + p.bits, p.lo # 0)

\* a + b in f32: the smaller operand is aligned to the larger one, which
\* carries three more digits, and what falls off is kept as sticky.
F32Add(a, b) ==
    IF a.m = 0 THEN b
    ELSE IF b.m = 0 THEN a
    ELSE LET a_big == a.e > b.e \/ (a.e = b.e /\ a.m >= b.m)
             big == IF a_big THEN a ELSE b
             small == IF a_big THEN b ELSE a
             d == big.e - small.e
             mb == big.m * 8
             ms == IF d > 27 THEN 0 ELSE (small.m * 8) \div 2^d
             sticky == IF d > 27 THEN TRUE ELSE (small.m * 8) % 2^d # 0
             n == IF big.sign = small.sign THEN mb + ms
                  ELSE mb - ms - (IF sticky THEN 1 ELSE 0)
         IN  IF n = 0 THEN F32Zero ELSE F32Round(big.sign, n, big.e - 3, sticky)

\* Step(x).to_letter_octave() for an f32 x below 2^24 in size; below 1/4 in
\* size x rounds to 0.
F32ToLetterOctave(x) ==
    IF x.m = 0 \/ x.e <= -26 THEN ToLetterOctave(0, 1)
    ELSE IF x.e >= 0 THEN ToLetterOctave(x.sign * x.m * 2^x.e, 1)
    ELSE ToLetterOctave(x.sign * x.m, 2^(-x.e))

\* LetterOctave + LetterOctave: the sum of the steps, as a LetterOctave.
AddPitch(a, b) == ToLetterOctave(StepOf(a) + StepOf(b), 1)

\* f32 as u8: truncation, saturating at 0 and 255.
AsU8(x) == IF x < 0 THEN 0 ELSE IF x > 255 THEN 255 ELSE x

(***************************************************************************)
(* module.rs: scales.                                                      *)
(***************************************************************************)
CHROMATIC_SCALE_NOTES ==
    << "C", "Csh", "D", "Dsh", "E", "F", "Fsh", "G", "Gsh", "A", "Ash", "B" >>

MAJOR_SCALE_NOTES == << "C", "D", "E", "F", "G", "A", "B" >>

MINOR_SCALE_NOTES == << "C", "D", "Eb", "F", "G", "Ab", "Bb" >>

MAJOR_PENTATONIC_SCALE_NOTES == << "C", "D", "E", "G", "A" >>

MINOR_PENTATONIC_SCALE_NOTES == << "C", "Eb", "F", "G", "Bb" >>

(***************************************************************************)
(* module.rs: trigger modules.  tick() of a module is the set of its       *)
(* outcomes [out, next]: the value returned and the module afterwards.     *)
(***************************************************************************)
\* RandomTriggerGenerator::new; the probability is kept in percent.
RandomTriggerGenerator(p) == [p |-> p]

\* Rng::gen_bool(p): never true for p = 0, always true for p = 1.
GenBool(p) == IF p = 0 THEN {FALSE} ELSE IF p = 100 THEN {TRUE} ELSE BOOLEAN

\* Variant: the two arms are swapped.
TriggerFromBoolInverted(b) == IF b THEN "Off" ELSE "On"

\* Trigger::from_bool
TriggerFromBool(b) == IF b THEN "On" ELSE "Off"

\* RandomTriggerGenerator::tick
RandomTriggerTick(g) ==
    { [out |-> TriggerFromBool(b), next |-> g, calls |-> << >>] : b \in GenBool(g.p) }

\* ClockDivider::new
ClockDivider(input, factor) == [factor |-> factor, counter |-> 0, input |-> input]

\* Variant: the counter is incremented before it is tested, so that the first
\* call forwarded is call number factor.
ClockDividerTickCountsFirst(d) ==
    IF (d.counter + 1) % d.factor = 0
    THEN { [out |-> r.out,
            next |-> [factor |-> d.factor, counter |-> 0, input |-> r.next],
            calls |-> << "ClockDivider.input" >> \o r.calls]
           : r \in RandomTriggerTick(d.input) }
    ELSE { [out |-> "Off",
            next |-> [d EXCEPT !.counter = d.counter + 1],
            calls |-> << >>] }

\* Variant: the input is ticked at every call and its result dropped unless the
\* counter is a multiple of the factor.
ClockDividerTickAlwaysTicksInput(d) ==
    { [out |-> IF d.counter % d.factor = 0 THEN r.out ELSE "Off",
       next |-> [factor |-> d.factor,
                 counter |-> (IF d.counter % d.factor = 0 THEN 0 ELSE d.counter) + 1,
                 input |-> r.next],
       calls |-> << "ClockDivider.input" >> \o r.calls]
      : r \in RandomTriggerTick(d.input) }

\* Variant: the counter is never reset.
ClockDividerTickNoReset(d) ==
    IF d.counter % d.factor = 0
    THEN { [out |-> r.out,
            next |-> [factor |-> d.factor, counter |-> d.counter + 1, input |-> r.next],
            calls |-> << "ClockDivider.input" >> \o r.calls]
           : r \in RandomTriggerTick(d.input) }
    ELSE { [out |-> "Off",
            next |-> [d EXCEPT !.counter = d.counter + 1],
            calls |-> << >>] }

\* ClockDivider::tick
ClockDividerTick(d) ==
    IF d.counter % d.factor = 0
    THEN { [out |-> r.out,
            next |-> [factor |-> d.factor, counter |-> 0 + 1, input |-> r.next],
            calls |-> << "ClockDivider.input" >> \o r.calls]
           : r \in RandomTriggerTick(d.input) }
    ELSE { [out |-> "Off",
            next |-> [d EXCEPT !.counter = d.counter + 1],
            calls |-> << >>] }

(***************************************************************************)
(* module.rs: pitch modules.  A pitch outcome is [ok, out, next]; ok is    *)
(* FALSE when tick() panics.                                               *)
(***************************************************************************)
\* RandomPitchGenerator::new
RandomPitchGenerator(min, max) ==
    [type |-> "Random", cycle_length |-> 0, min |-> StepOf(min), max |-> StepOf(max),
     counter |-> 0]

\* RampPitchGenerator::new
RampPitchGenerator(cycle_length, min, max) ==
    [type |-> "RampUp", cycle_length |-> cycle_length, min |-> StepOf(min),
     max |-> StepOf(max), counter |-> 0]

\* SquarePitchGenerator::new
SquarePitchGenerator(cycle_length, min, max) ==
    [type |-> "Square", cycle_length |-> cycle_length, min |-> StepOf(min),
     max |-> StepOf(max), counter |-> 0]

\* Rng::gen_range(min..max) for min < max, in units of 1/RandRes.
GenRange(min, max) == (min * RandRes) .. (max * RandRes - 1)

\* Variant: the range is sampled also when it is empty; gen_range panics on an
\* empty range, so that tick() has no outcome.
RandomPitchTickAlwaysDraws(g) ==
    { [out |-> ToLetterOctave(r, RandRes), next |-> g] : r \in GenRange(g.min, g.max) }

\* RandomPitchGenerator::tick
RandomPitchTick(g) ==
    IF g.min # g.max
    THEN { [out |-> ToLetterOctave(r, RandRes), next |-> g] : r \in GenRange(g.min, g.max) }
    ELSE { [out |-> ToLetterOctave(g.min, 1), next |-> g] }

\* Variant: the slope divides by cycle_length, so that max is never reached.
RampPitchTickExclusive(g) ==
    LET slope == F32DivInt(g.max - g.min, g.cycle_length)
        step == F32Add(F32FromInt(g.min), F32MulInt(slope, g.counter))
    IN  { [out |-> F32ToLetterOctave(step),
           next |-> [g EXCEPT !.counter = IF g.counter = g.cycle_length - 1
                                          THEN 0 ELSE g.counter + 1]] }

\* Variant: the counter wraps one tick late, after reaching cycle_length.
RampPitchTickWrapsLate(g) ==
    LET slope == IF g.cycle_length > 1
                 THEN F32DivInt(g.max - g.min, g.cycle_length - 1)
                 ELSE F32Zero
        step == F32Add(F32FromInt(g.min), F32MulInt(slope, g.counter))
    IN  { [out |-> F32ToLetterOctave(step),
           next |-> [g EXCEPT !.counter = IF g.counter = g.cycle_length
                                          THEN 0 ELSE g.counter + 1]] }

\* RampPitchGenerator::tick, in f32 as the code: the slope is rounded, its
\* product with the counter is rounded, and so is the sum with min.
RampPitchTick(g) ==
    LET slope == IF g.cycle_length > 1
                 THEN F32DivInt(g.max - g.min, g.cycle_length - 1)
                 ELSE F32Zero
        step == F32Add(F32FromInt(g.min), F32MulInt(slope, g.counter))
    IN  { [out |-> F32ToLetterOctave(step),
           next |-> [g EXCEPT !.counter = IF g.counter = g.cycle_length - 1
                                          THEN 0 ELSE g.counter + 1]] }

\* Variant: the half of the cycle is rounded up, so that odd lengths carry one
\* extra min tick.
SquarePitchTickHalfUp(g) ==
    LET c == g.counter + 1
    IN  IF c <= (g.cycle_length + 1) \div 2
        THEN { [out |-> ToLetterOctave(g.min, 1),
                next |-> [g EXCEPT !.counter = IF c = g.cycle_length THEN 0 ELSE c]] }
        ELSE { [out |-> ToLetterOctave(g.max, 1),
                next |-> [g EXCEPT !.counter = IF c = g.cycle_length THEN 0 ELSE c]] }

\* Variant: the reset of the counter sits in the min branch, where the counter
\* never equals cycle_length for cycle_length >= 2.
SquarePitchTickResetInMinBranch(g) ==
    LET c == g.counter + 1
    IN  IF c <= g.cycle_length \div 2
        THEN { [out |-> ToLetterOctave(g.min, 1),
                next |-> [g EXCEPT !.counter = IF c = g.cycle_length THEN 0 ELSE c]] }
        ELSE { [out |-> ToLetterOctave(g.max, 1), next |-> [g EXCEPT !.counter = c]] }

\* SquarePitchGenerator::tick
SquarePitchTick(g) ==
    LET c == g.counter + 1
    IN  IF c <= g.cycle_length \div 2
        THEN { [out |-> ToLetterOctave(g.min, 1), next |-> [g EXCEPT !.counter = c]] }
        ELSE { [out |-> ToLetterOctave(g.max, 1),
                next |-> [g EXCEPT !.counter = IF c = g.cycle_length THEN 0 ELSE c]] }

\* Dispatch of PitchModule::tick over the three generators.
GeneratorTick(g) ==
    CASE g.type = "Random" -> RandomPitchTick(g)
      [] g.type = "RampUp" -> RampPitchTick(g)
      [] g.type = "Square" -> SquarePitchTick(g)

\* PitchAdder::new
PitchAdder(left, right) == [left |-> left, right |-> right]

\* Variant: the left operand is ticked first.
PitchAdderTickLeftFirst(a) ==
    { [out |-> AddPitch(l.out, r.out), next |-> [left |-> l.next, right |-> r.next],
       calls |-> << "PitchAdder.left", "PitchAdder.right" >>]
      : l \in GeneratorTick(a.left), r \in GeneratorTick(a.right) }

\* PitchAdder::tick: `self.right.tick()`, then `self.left.tick()`, then the sum.
PitchAdderTick(a) ==
    { [out |-> AddPitch(l.out, r.out), next |-> [left |-> l.next, right |-> r.next],
       calls |-> << "PitchAdder.right", "PitchAdder.left" >>]
      : r \in GeneratorTick(a.right), l \in GeneratorTick(a.left) }

\* Vec::sort on letters: the smallest letter, the first of them when it stands
\* more than once, followed by the others sorted.
SortedLetters[s \in Seq(Letters)] ==
    IF s = << >> THEN << >>
    ELSE LET i == CHOOSE i \in 1..Len(s) :
                      \A j \in 1..Len(s) : LetterOrd(s[i]) <= LetterOrd(s[j])
         IN  << s[i] >> \o SortedLetters[SubSeq(s, 1, i - 1) \o SubSeq(s, i + 1, Len(s))]

\* self.enabled_notes.sort()
SortLetters(s) == SortedLetters[s]

\* PitchQuantizer::new
PitchQuantizer(input, enabled_notes) == [input |-> input, enabled_notes |-> enabled_notes]

\* Variant: the wrap takes the highest note of the scale.
RECURSIVE QuantizeFromWrapLast(_, _, _)
QuantizeFromWrapLast(notes, i, unquantized) ==
    IF i > Len(notes)
    THEN IF Len(notes) = 0
         THEN [ok |-> FALSE, out |-> unquantized]
         ELSE [ok |-> TRUE, out |-> LetterOctave(notes[Len(notes)], unquantized.octave + 1)]
    ELSE IF notes[i] = unquantized.letter
         THEN [ok |-> TRUE, out |-> unquantized]
         ELSE IF LetterOrd(notes[i]) > LetterOrd(unquantized.letter)
              THEN [ok |-> TRUE, out |-> LetterOctave(notes[i], unquantized.octave)]
              ELSE QuantizeFromWrapLast(notes, i + 1, unquantized)

\* Variant: the wrap raises the octave and keeps the letter of the input.
RECURSIVE QuantizeFromWrapKeepsLetter(_, _, _)
QuantizeFromWrapKeepsLetter(notes, i, unquantized) ==
    IF i > Len(notes)
    THEN IF Len(notes) = 0
         THEN [ok |-> FALSE, out |-> unquantized]
         ELSE [ok |-> TRUE, out |-> LetterOctave(unquantized.letter, unquantized.octave + 1)]
    ELSE IF notes[i] = unquantized.letter
         THEN [ok |-> TRUE, out |-> unquantized]
         ELSE IF LetterOrd(notes[i]) > LetterOrd(unquantized.letter)
              THEN [ok |-> TRUE, out |-> LetterOctave(notes[i], unquantized.octave)]
              ELSE QuantizeFromWrapKeepsLetter(notes, i + 1, unquantized)

\* Variant: the first note is not compared, the loop starting at the second.
RECURSIVE QuantizeFromSkipsFirst(_, _, _)
QuantizeFromSkipsFirst(notes, i, unquantized) ==
    IF i > Len(notes)
    THEN IF Len(notes) = 0
         THEN [ok |-> FALSE, out |-> unquantized]
         ELSE [ok |-> TRUE, out |-> LetterOctave(notes[1], unquantized.octave + 1)]
    ELSE IF i > 1 /\ notes[i] = unquantized.letter
         THEN [ok |-> TRUE, out |-> unquantized]
         ELSE IF i > 1 /\ LetterOrd(notes[i]) > LetterOrd(unquantized.letter)
              THEN [ok |-> TRUE, out |-> LetterOctave(notes[i], unquantized.octave)]
              ELSE QuantizeFromSkipsFirst(notes, i + 1, unquantized)

\* Variant: the wrap stays in the octave of the input.
RECURSIVE QuantizeFromWrapSameOctave(_, _, _)
QuantizeFromWrapSameOctave(notes, i, unquantized) ==
    IF i > Len(notes)
    THEN IF Len(notes) = 0
         THEN [ok |-> FALSE, out |-> unquantized]
         ELSE [ok |-> TRUE, out |-> LetterOctave(notes[1], unquantized.octave)]
    ELSE IF notes[i] = unquantized.letter
         THEN [ok |-> TRUE, out |-> unquantized]
         ELSE IF LetterOrd(notes[i]) > LetterOrd(unquantized.letter)
              THEN [ok |-> TRUE, out |-> LetterOctave(notes[i], unquantized.octave)]
              ELSE QuantizeFromWrapSameOctave(notes, i + 1, unquantized)

\* The loop of PitchQuantizer::tick over the sorted notes from index i on, and
\* the wrap after it; "panic" is the index out of bounds on an empty scale.
RECURSIVE QuantizeFrom(_, _, _)
QuantizeFrom(notes, i, unquantized) ==
    IF i > Len(notes)
    THEN IF Len(notes) = 0
         THEN [ok |-> FALSE, out |-> unquantized]
         ELSE [ok |-> TRUE, out |-> LetterOctave(notes[1], unquantized.octave + 1)]
    ELSE IF notes[i] = unquantized.letter
         THEN [ok |-> TRUE, out |-> unquantized]
         ELSE IF LetterOrd(notes[i]) > LetterOrd(unquantized.letter)
              THEN [ok |-> TRUE, out |-> LetterOctave(notes[i], unquantized.octave)]
              ELSE QuantizeFrom(notes, i + 1, unquantized)

\* PitchQuantizer::tick
PitchQuantizerTick(q) ==
    { LET res == QuantizeFrom(sorted, 1, u.out)
      IN  [ok |-> res.ok, out |-> res.out,
           next |-> [input |-> u.next, enabled_notes |-> sorted],
           calls |-> << "PitchQuantizer.input" >> \o u.calls]
      : sorted \in { SortLetters(q.enabled_notes) }, u \in PitchAdderTick(q.input) }

(***************************************************************************)
(* sequencer.rs: configurations and the graph builders.                    *)
(***************************************************************************)
\* A SequencerConfiguration value (trigger_probablilty in percent).
Config(mt, mc, mmin, mmax, tt, tc, tmin, tmax, p, f, scale, bpm) ==
    [melody_min_pitch |-> mmin, melody_max_pitch |-> mmax,
     melody_pitch_generator_type |-> mt, melody_cycle_length |-> mc,
     transposition_min_pitch |-> tmin, transposition_max_pitch |-> tmax,
     transposition_pitch_generator_type |-> tt, transposition_cycle_length |-> tc,
     trigger_probablilty |-> p, clock_divider_factor |-> f,
     quantizer_scale |-> scale, bpm |-> bpm]

\* The match on a PitchGeneratorType in build_pitch_generator.
BuildGenerator(type, cycle_length, min, max) ==
    CASE type = "Random" -> RandomPitchGenerator(min, max)
      [] type = "RampUp" -> RampPitchGenerator(cycle_length, min, max)
      [] type = "Square" -> SquarePitchGenerator(cycle_length, min, max)

\* Sequencer::build_pitch_generator
build_pitch_generator(config) ==
    PitchQuantizer(
        PitchAdder(
            BuildGenerator(config.melody_pitch_generator_type, config.melody_cycle_length,
                           config.melody_min_pitch, config.melody_max_pitch),
            BuildGenerator(config.transposition_pitch_generator_type,
                           config.transposition_cycle_length,
                           config.transposition_min_pitch, config.transposition_max_pitch)),
        config.quantizer_scale)

\* Sequencer::build_trigger_generator
build_trigger_generator(config) ==
    ClockDivider(RandomTriggerGenerator(config.trigger_probablilty),
                 config.clock_divider_factor)

(***************************************************************************)
(* main.rs: the ranges of the control panel.                               *)
(***************************************************************************)
MELODY_PITCH_MIN_VALUE == LetterOctave("C", 0)

MELODY_PITCH_MAX_VALUE == LetterOctave("C", 7)

\* Steps.
TRANSPOSITION_MIN_VALUE == 0

TRANSPOSITION_MAX_VALUE == 24

QUANTIZER_SCALES ==
    << CHROMATIC_SCALE_NOTES, MAJOR_SCALE_NOTES, MINOR_SCALE_NOTES,
       MAJOR_PENTATONIC_SCALE_NOTES, MINOR_PENTATONIC_SCALE_NOTES >>

\* A pitch graph that build_pitch_generator gives for a configuration of the
\* control panel: the ranges of its two sliders and one of its scales.
WithinPanel(pg) ==
    /\ StepOf(MELODY_PITCH_MIN_VALUE) <= pg.input.left.min
    /\ pg.input.left.min <= pg.input.left.max
    /\ pg.input.left.max <= StepOf(MELODY_PITCH_MAX_VALUE)
    /\ TRANSPOSITION_MIN_VALUE <= pg.input.right.min
    /\ pg.input.right.min <= pg.input.right.max
    /\ pg.input.right.max <= TRANSPOSITION_MAX_VALUE
    /\ \E i \in 1..Len(QUANTIZER_SCALES) : pg.enabled_notes = QUANTIZER_SCALES[i]

\* Configurations within the data model's invariants and the ranges of the
\* control panel.
ValidConfigs ==
    { Config("RampUp", 3, LetterOctave("C", 1), LetterOctave("D", 1),
             "Square", 2, LetterOctave("C", -1), LetterOctave("D", -1),
             100, 2, MAJOR_SCALE_NOTES, 120),
      Config("Random", 1, LetterOctave("B", 6), LetterOctave("C", 7),
             "RampUp", 2, LetterOctave("B", 0), LetterOctave("C", 1),
             50, 1, MINOR_PENTATONIC_SCALE_NOTES, 90) }

\* Values of the SequencerConfiguration type beyond those: a melody range above
\* the control panel's, a scale that is none of the control panel's, and an
\* empty scale.
AnyConfigs ==
    ValidConfigs \cup
    { Config("RampUp", 1, LetterOctave("C", 10), LetterOctave("C", 10),
             "RampUp", 1, LetterOctave("C", -1), LetterOctave("C", -1),
             100, 2, CHROMATIC_SCALE_NOTES, 120),
      Config("RampUp", 1, LetterOctave("C", 7), LetterOctave("C", 7),
             "RampUp", 1, LetterOctave("C", 1), LetterOctave("C", 1),
             100, 2, << "B" >>, 120),
      Config("RampUp", 2, LetterOctave("C", 1), LetterOctave("D", 1),
             "RampUp", 1, LetterOctave("C", -1), LetterOctave("C", -1),
             100, 2, << >>, 120) }

(***************************************************************************)
(* sequencer.rs: the runtime.                                              *)
(***************************************************************************)
NOTE_ON_MSG == 144
NOTE_OFF_MSG == 128
VELOCITY == 100

\* A local of tick() that is out of scope.
NoPitch == [letter |-> "none", octave |-> 0]

VARIABLES
    queue,              \* the mpsc channel: commands sent and not yet received
    receiver,           \* "open", or "dropped" once the timer thread is gone
    producer,           \* "running", "blocked" in send(), or "panicked" after a failed unwrap()
    is_playing,         \* SequencerThread::is_playing
    pitch_generator,    \* SequencerThread::pitch_generator
    trigger_generator,  \* SequencerThread::trigger_generator
    midi,               \* what midi_output_conn has been sent, in order
    pc,                 \* where the timer thread is in tick(): "idle" between ticks
    pitch,              \* tick()'s local pitch
    trigger,            \* the value of self.trigger_generator.tick() being matched
    note,               \* tick()'s local note
    sent,               \* history: every command sent, in order
    applied,            \* history: every command applied by tick(), in order, each
                        \* with the play state it was applied in
    sent_at_tick_start, \* history: Len(sent) when the current tick began
    pitch_fresh,        \* history: the held pitch graph has not been ticked
    trigger_fresh,      \* history: the held trigger graph has not been ticked
    ports,              \* how many ports midi_out.ports() enumerates
    out_port,           \* index of the port midi_output_conn is connected to
    module,             \* a module of module.rs ticked on its own
    returned,           \* what the ticks of that module returned, in order
    in_progress,        \* history: executions of tick() entered and not yet left
    calls,              \* history: the ticks a module made of its operands, in order
                        \* (in the runtime: those of the current or last tick())
    period,             \* the interval of the repeating timer, in milliseconds
    new_bpm,            \* history: the bpm of the configuration given to Sequencer::new
    ui                  \* main.rs: the Model of the control panel

vars ==
    << queue, receiver, producer, is_playing, pitch_generator, trigger_generator, midi,
       pc, pitch, trigger, note, sent, applied, sent_at_tick_start, pitch_fresh,
       trigger_fresh, ports, out_port, module, returned, in_progress, calls, period,
       new_bpm, ui >>

thread_vars == << is_playing, pitch_generator, trigger_generator, midi, pc, pitch, trigger, note >>

history_vars == << applied, sent_at_tick_start, pitch_fresh, trigger_fresh, in_progress, calls >>

\* What the runtime, once constructed, never touches.
env_vars == << ports, out_port, module, returned, period, new_bpm, ui >>

\* No port is connected.
NoPort == -1

\* No module is ticked on its own.
NoModule == [kind |-> "none"]

\* No control panel drives the Sequencer.
NoUi == [kind |-> "none"]

\* No timer is scheduled.
NoPeriod == -1

TICKS_PER_QUARTER_NOTE == 24

\* Variant: one tick per quarter note.
ClockPeriodPerQuarter(bpm) == 60000 \div bpm

\* `(60_000.0 / config.bpm / TICKS_PER_QUARTER_NOTE as f32) as i64` for a whole
\* bpm: the quotient truncated.
ClockPeriod(bpm) == 60000 \div (bpm * TICKS_PER_QUARTER_NOTE)

\* Sequencer::new(config, is_playing), called by the owner of the Sequencer.
InitWithUi(configs, owner) ==
    /\ queue = << >>
    /\ receiver = "open"
    /\ producer = "running"
    /\ is_playing \in BOOLEAN
    /\ \E config \in configs :
          /\ pitch_generator = build_pitch_generator(config)
          /\ trigger_generator = build_trigger_generator(config)
          /\ period = ClockPeriod(config.bpm)
          /\ new_bpm = config.bpm
    /\ midi = << >>
    /\ pc = "idle"
    /\ pitch = NoPitch
    /\ trigger = "none"
    /\ note = 0
    /\ sent = << >>
    /\ applied = << >>
    /\ sent_at_tick_start = 0
    /\ pitch_fresh = TRUE
    /\ trigger_fresh = TRUE
    /\ ports = 1
    /\ out_port = 0
    /\ module = NoModule
    /\ returned = << >>
    /\ in_progress = 0
    /\ calls = << >>
    /\ ui = owner

\* Sequencer::new(config, is_playing) without a control panel.
InitWith(configs) == InitWithUi(configs, NoUi)

Init == InitWith(ValidConfigs)

\* Variant: a channel of capacity one (sync_channel(1)).
ChannelHasRoomBounded(q) == Len(q) < 1

\* mpsc::channel(): a send is possible whatever the channel holds.
ChannelHasRoom(q) == TRUE

\* mpsc::Sender::send on an open channel.
ChannelSend(q, command) == Append(q, command)

\* self.sender.send(command).unwrap(): the command is queued while the receiver
\* exists (a sender of a full channel would wait instead); send() returns Err
\* once it is dropped and unwrap() panics.
Send(command) ==
    /\ producer = "running"
    /\ IF receiver = "open"
       THEN IF ChannelHasRoom(queue)
            THEN /\ queue' = ChannelSend(queue, command)
                 /\ sent' = Append(sent, command)
                 /\ producer' = producer
            ELSE /\ producer' = "blocked"
                 /\ UNCHANGED << queue, sent >>
       ELSE /\ producer' = "panicked"
            /\ UNCHANGED << queue, sent >>
    /\ UNCHANGED receiver
    /\ UNCHANGED thread_vars
    /\ UNCHANGED history_vars

\* The commands that the methods of Sequencer send.
StartCommand == [kind |-> "Start"]

StopCommand == [kind |-> "Stop"]

SetPitchGeneratorCommand(config) ==
    [kind |-> "SetPitchGenerator", pg |-> build_pitch_generator(config)]

SetTriggerGeneratorCommand(config) ==
    [kind |-> "SetTriggerGenerator", tg |-> build_trigger_generator(config)]

\* Sequencer::start
start ==
    /\ Len(sent) < MaxSends
    /\ Send(StartCommand)
    /\ UNCHANGED env_vars

\* Sequencer::stop
stop ==
    /\ Len(sent) < MaxSends
    /\ Send(StopCommand)
    /\ UNCHANGED env_vars

\* Sequencer::update_pitch_generator
update_pitch_generator(config) ==
    /\ Len(sent) < MaxSends
    /\ Send(SetPitchGeneratorCommand(config))
    /\ UNCHANGED env_vars

\* Sequencer::update_trigger_generator
update_trigger_generator(config) ==
    /\ Len(sent) < MaxSends
    /\ Send(SetTriggerGeneratorCommand(config))
    /\ UNCHANGED env_vars

\* Variant: the timer enters the callback again while the previous execution
\* sleeps between note-on and note-off.
TimerRunsCallbackDuringSleep(p) == p \in {"idle", "hold"}

\* schedule_repeating(.., move || thread.tick()): the timer has one thread that
\* runs the callback, a FnMut that owns the SequencerThread, so the callback is
\* entered only when its previous execution has returned.
TimerRunsCallback(p) == p = "idle"

\* The timer fires: tick() is entered.
TickStart ==
    /\ TimerRunsCallback(pc)
    /\ receiver = "open"
    /\ Len(midi) < MaxMidi
    /\ pc' = "drain"
    /\ sent_at_tick_start' = Len(sent)
    /\ in_progress' = in_progress + 1
    /\ calls' = << >>
    /\ UNCHANGED << queue, receiver, producer, is_playing, pitch_generator,
                    trigger_generator, midi, pitch, trigger, note, sent, applied,
                    pitch_fresh, trigger_fresh >>
    /\ UNCHANGED env_vars

\* Variant: Start and Stop toggle the play state.
ApplyIsPlayingToggle(playing, command) ==
    CASE command.kind = "Start" -> ~playing
      [] command.kind = "Stop" -> ~playing
      [] OTHER -> playing

\* The match on a command in tick(): the play state after it.
ApplyIsPlaying(playing, command) ==
    CASE command.kind = "Start" -> IF ~playing THEN TRUE ELSE playing
      [] command.kind = "Stop" -> IF playing THEN FALSE ELSE playing
      [] OTHER -> playing

\* Variant: a replacement is taken only while Playing.
ApplyPitchGeneratorWhenPlaying(playing, pg, command) ==
    IF command.kind = "SetPitchGenerator" /\ playing THEN command.pg ELSE pg

\* The match on a command in tick(): the pitch graph after it.
ApplyPitchGenerator(playing, pg, command) ==
    IF command.kind = "SetPitchGenerator" THEN command.pg ELSE pg

\* Variant: a replacement of the pitch graph restarts the clock divider.
ApplyTriggerGeneratorRestarts(playing, tg, command) ==
    IF command.kind = "SetTriggerGenerator" THEN command.tg
    ELSE IF command.kind = "SetPitchGenerator" THEN [tg EXCEPT !.counter = 0]
    ELSE tg

\* The match on a command in tick(): the trigger graph after it.
ApplyTriggerGenerator(playing, tg, command) ==
    IF command.kind = "SetTriggerGenerator" THEN command.tg ELSE tg

\* Variant: the newest command is taken first.
TryRecvNewest(q) == q[Len(q)]

\* The command that try_iter() yields next.
TryRecv(q) == Head(q)

\* One iteration of `for command in self.receiver.try_iter()`.
DrainApply ==
    /\ pc = "drain"
    /\ queue # << >>
    /\ LET command == TryRecv(queue)
       IN  /\ queue' = Tail(queue)
           /\ is_playing' = ApplyIsPlaying(is_playing, command)
           /\ pitch_generator' = ApplyPitchGenerator(is_playing, pitch_generator, command)
           /\ trigger_generator' =
                  ApplyTriggerGenerator(is_playing, trigger_generator, command)
           /\ applied' = Append(applied, [cmd |-> command, was_playing |-> is_playing])
           /\ pitch_fresh' = IF command.kind = "SetPitchGenerator" THEN TRUE ELSE pitch_fresh
           /\ trigger_fresh' =
                  IF command.kind = "SetTriggerGenerator" THEN TRUE ELSE trigger_fresh
    /\ UNCHANGED << receiver, producer, midi, pc, pitch, trigger, note, sent,
                    sent_at_tick_start, in_progress, calls >>
    /\ UNCHANGED env_vars

\* Variant: the loop is over receiver.iter(), which waits for the next command
\* and ends only once the sender is gone.
DrainEndWhenSenderGone ==
    /\ pc = "drain"
    /\ queue = << >>
    /\ producer # "running"
    /\ pc' = "play"
    /\ UNCHANGED << queue, receiver, producer, is_playing, pitch_generator,
                    trigger_generator, midi, pitch, trigger, note, sent, applied,
                    sent_at_tick_start, pitch_fresh, trigger_fresh, in_progress, calls >>
    /\ UNCHANGED env_vars

\* try_iter() finds the channel empty: the loop ends.
DrainEnd ==
    /\ pc = "drain"
    /\ queue = << >>
    /\ pc' = "play"
    /\ UNCHANGED << queue, receiver, producer, is_playing, pitch_generator,
                    trigger_generator, midi, pitch, trigger, note, sent, applied,
                    sent_at_tick_start, pitch_fresh, trigger_fresh, in_progress, calls >>
    /\ UNCHANGED env_vars

\* Variant: the play state gates the output only; a Stopped tick still ticks
\* the graphs.
PlayStoppedTicking ==
    /\ pc = "play"
    /\ ~is_playing
    /\ pc' = "idle"
    /\ sent_at_tick_start' = 0
    /\ in_progress' = in_progress - 1
    /\ \E p \in PitchQuantizerTick(pitch_generator) : pitch_generator' = p.next
    /\ \E t \in ClockDividerTick(trigger_generator) : trigger_generator' = t.next
    /\ UNCHANGED << queue, receiver, producer, is_playing, midi, pitch, trigger, note,
                    sent, applied, pitch_fresh, trigger_fresh, calls >>
    /\ UNCHANGED env_vars

\* `if self.is_playing` is false: tick() returns.
PlayStopped ==
    /\ pc = "play"
    /\ ~is_playing
    /\ pc' = "idle"
    /\ sent_at_tick_start' = 0
    /\ in_progress' = in_progress - 1
    /\ UNCHANGED << queue, receiver, producer, is_playing, pitch_generator,
                    trigger_generator, midi, pitch, trigger, note, sent, applied,
                    pitch_fresh, trigger_fresh, calls >>
    /\ UNCHANGED env_vars

\* Variant: the pitch graph is ticked only when the trigger is On.
PlayTickPitchOnTrigger ==
    /\ pc = "play"
    /\ is_playing
    /\ \E t \in ClockDividerTick(trigger_generator) :
          /\ trigger_generator' = t.next
          /\ trigger' = t.out
          /\ IF t.out = "On"
             THEN \E p \in { x \in PitchQuantizerTick(pitch_generator) : x.ok } :
                      /\ pitch_generator' = p.next
                      /\ pitch' = p.out
                      /\ calls' = t.calls \o p.calls
             ELSE /\ pitch_generator' = pitch_generator
                  /\ pitch' = NoPitch
                  /\ calls' = t.calls
    /\ pc' = "gate"
    /\ pitch_fresh' = FALSE
    /\ trigger_fresh' = FALSE
    /\ UNCHANGED << queue, receiver, producer, is_playing, midi, note, sent, applied,
                    sent_at_tick_start, in_progress >>
    /\ UNCHANGED env_vars

\* `let pitch = self.pitch_generator.tick()` and `self.trigger_generator.tick()`.
\* A panic of the pitch graph unwinds the timer thread, which drops the receiver
\* and what the channel holds.
PlayTick ==
    /\ pc = "play"
    /\ is_playing
    /\ \E p \in PitchQuantizerTick(pitch_generator) :
          IF p.ok
          THEN /\ \E t \in ClockDividerTick(trigger_generator) :
                     /\ trigger_generator' = t.next
                     /\ trigger' = t.out
                     /\ calls' = p.calls \o t.calls
               /\ pitch_generator' = p.next
               /\ pitch' = p.out
               /\ pc' = "gate"
               /\ pitch_fresh' = FALSE
               /\ trigger_fresh' = FALSE
               /\ UNCHANGED << queue, receiver, in_progress >>
          ELSE /\ pc' = "panicked"
               /\ receiver' = "dropped"
               /\ queue' = << >>
               /\ in_progress' = in_progress - 1
               /\ calls' = p.calls
               /\ UNCHANGED << pitch_generator, trigger_generator, pitch, trigger,
                               pitch_fresh, trigger_fresh >>
    /\ UNCHANGED << producer, is_playing, midi, note, sent, applied, sent_at_tick_start >>
    /\ UNCHANGED env_vars

\* The MIDI message of a note-on.
NoteOnMessage(n) == << NOTE_ON_MSG, n, VELOCITY >>

\* Variant: the note-off is sent as a note-on of velocity 0.
NoteOffAsNoteOn(n) == << NOTE_ON_MSG, n, 0 >>

\* The MIDI message of a note-off.
NoteOffMessage(n) == << NOTE_OFF_MSG, n, VELOCITY >>

\* `let note = pitch.step() as u8`
NoteOf(p) == AsU8(StepOf(p))

\* Trigger::On: the note-on is sent and the thread sleeps.
GateOn ==
    /\ pc = "gate"
    /\ trigger = "On"
    /\ note' = NoteOf(pitch)
    /\ midi' = Append(midi, NoteOnMessage(note'))
    /\ pc' = "hold"
    /\ UNCHANGED << queue, receiver, producer, is_playing, pitch_generator,
                    trigger_generator, pitch, trigger, sent, applied,
                    sent_at_tick_start, pitch_fresh, trigger_fresh, in_progress, calls >>
    /\ UNCHANGED env_vars

\* Trigger::Off: tick() returns.
GateOff ==
    /\ pc = "gate"
    /\ trigger = "Off"
    /\ pc' = "idle"
    /\ sent_at_tick_start' = 0
    /\ in_progress' = in_progress - 1
    /\ pitch' = NoPitch
    /\ trigger' = "none"
    /\ UNCHANGED << queue, receiver, producer, is_playing, pitch_generator,
                    trigger_generator, midi, note, sent, applied,
                    pitch_fresh, trigger_fresh, calls >>
    /\ UNCHANGED env_vars

\* Variant: the channel is looked at again after the sleep, and a Stop waiting
\* in it cancels the note-off.
NoteOffUnlessStopQueued ==
    /\ pc = "hold"
    /\ midi' = IF \E i \in 1..Len(queue) : queue[i].kind = "Stop"
               THEN midi
               ELSE Append(midi, NoteOffMessage(note))
    /\ pc' = "idle"
    /\ sent_at_tick_start' = 0
    /\ in_progress' = in_progress - 1
    /\ pitch' = NoPitch
    /\ trigger' = "none"
    /\ note' = 0
    /\ UNCHANGED << queue, receiver, producer, is_playing, pitch_generator,
                    trigger_generator, sent, applied, pitch_fresh,
                    trigger_fresh, calls >>
    /\ UNCHANGED env_vars

\* After the sleep: the note-off is sent and tick() returns.
NoteOff ==
    /\ pc = "hold"
    /\ midi' = Append(midi, NoteOffMessage(note))
    /\ pc' = "idle"
    /\ sent_at_tick_start' = 0
    /\ in_progress' = in_progress - 1
    /\ pitch' = NoPitch
    /\ trigger' = "none"
    /\ note' = 0
    /\ UNCHANGED << queue, receiver, producer, is_playing, pitch_generator,
                    trigger_generator, sent, applied, pitch_fresh,
                    trigger_fresh, calls >>
    /\ UNCHANGED env_vars

\* midi_output_conn.send(..) returns Err at either call and unwrap() panics.
MidiSendFails ==
    /\ \/ pc = "gate" /\ trigger = "On"
       \/ pc = "hold"
    /\ pc' = "panicked"
    /\ receiver' = "dropped"
    /\ queue' = << >>
    /\ in_progress' = in_progress - 1
    /\ UNCHANGED << producer, is_playing, pitch_generator, trigger_generator, midi, pitch,
                    trigger, note, sent, applied, sent_at_tick_start, pitch_fresh,
                    trigger_fresh, calls >>
    /\ UNCHANGED env_vars

\* The runtime with a working MIDI sink and valid configurations.
Next ==
    \/ TickStart
    \/ DrainApply
    \/ DrainEnd
    \/ PlayStopped
    \/ PlayTick
    \/ GateOn
    \/ GateOff
    \/ NoteOff
    \/ start
    \/ stop
    \/ \E config \in ValidConfigs : update_pitch_generator(config)
    \/ \E config \in ValidConfigs : update_trigger_generator(config)

Spec == Init /\ [][Next]_vars

\* The runtime, built from a valid configuration, with a control surface that
\* passes any configuration value and a MIDI sink that may fail.
NextAny ==
    \/ TickStart
    \/ DrainApply
    \/ DrainEnd
    \/ PlayStopped
    \/ PlayTick
    \/ GateOn
    \/ GateOff
    \/ NoteOff
    \/ MidiSendFails
    \/ start
    \/ stop
    \/ \E config \in AnyConfigs : update_pitch_generator(config)
    \/ \E config \in AnyConfigs : update_trigger_generator(config)

SpecAny == Init /\ [][NextAny]_vars

(***************************************************************************)
(* sequencer.rs: construction.                                             *)
(***************************************************************************)
\* Sequencer::new has been called: the channel and the graphs exist, the MIDI
\* output is not yet opened and the timer not yet scheduled.
InitNew ==
    /\ queue = << >>
    /\ receiver = "open"
    /\ producer = "constructing"
    /\ is_playing \in BOOLEAN
    /\ \E config \in ValidConfigs :
          /\ pitch_generator = build_pitch_generator(config)
          /\ trigger_generator = build_trigger_generator(config)
          /\ new_bpm = config.bpm
    /\ period = NoPeriod
    /\ midi = << >>
    /\ pc = "new"
    /\ pitch = NoPitch
    /\ trigger = "none"
    /\ note = 0
    /\ sent = << >>
    /\ applied = << >>
    /\ sent_at_tick_start = 0
    /\ pitch_fresh = TRUE
    /\ trigger_fresh = TRUE
    /\ ports \in 0..MaxPorts
    /\ out_port = NoPort
    /\ module = NoModule
    /\ returned = << >>
    /\ in_progress = 0
    /\ calls = << >>
    /\ ui = NoUi

\* Variant: the last enumerated port is taken.
LastPort(n) == n - 1

\* `&midi_out.ports()[0]`
FirstPort(n) == 0

\* The rest of Sequencer::new.  SequencerThread::new indexes ports()[0], which
\* panics when there is no port, and unwraps connect(), which panics when the
\* connection fails; the panic unwinds Sequencer::new, dropping the channel.
\* Otherwise the timer is scheduled and the Sequencer is returned.
SequencerNew ==
    /\ pc = "new"
    /\ \E connected \in BOOLEAN :
          IF ports > 0 /\ connected
          THEN /\ out_port' = FirstPort(ports)
               /\ pc' = "idle"
               /\ producer' = "running"
               /\ receiver' = receiver
               /\ period' = ClockPeriod(new_bpm)
          ELSE /\ out_port' = NoPort
               /\ pc' = "aborted"
               /\ producer' = "panicked"
               /\ receiver' = "dropped"
               /\ period' = NoPeriod
    /\ UNCHANGED << queue, is_playing, pitch_generator, trigger_generator, midi, pitch,
                    trigger, note, sent, ports, module, returned, new_bpm, ui >>
    /\ UNCHANGED history_vars

\* Construction, then the runtime with a control surface that starts and stops.
NextNew ==
    \/ SequencerNew
    \/ TickStart
    \/ DrainApply
    \/ DrainEnd
    \/ PlayStopped
    \/ PlayTick
    \/ GateOn
    \/ GateOff
    \/ NoteOff
    \/ start
    \/ stop

SpecNew == InitNew /\ [][NextNew]_vars

(***************************************************************************)
(* module.rs: one module, built by its new() and ticked on its own, as the *)
(* tests of module.rs do.                                                  *)
(***************************************************************************)
runtime_vars ==
    << queue, receiver, producer, is_playing, pitch_generator, trigger_generator, midi,
       pc, pitch, trigger, note, sent, applied, sent_at_tick_start, pitch_fresh,
       trigger_fresh, ports, out_port, in_progress, period, new_bpm, ui >>

\* The min and max given to the generators: equal, a semitone, two semitones
\* and an octave apart, from the lowest pitch up, some spelled with a flat.
ModuleRanges ==
    { << LetterOctave("C", -1), LetterOctave("C", -1) >>,
      << LetterOctave("Eb", 3), LetterOctave("Eb", 3) >>,
      << LetterOctave("C", -1), LetterOctave("Csh", -1) >>,
      << LetterOctave("C", 1), LetterOctave("D", 1) >>,
      << LetterOctave("Eb", 1), LetterOctave("E", 1) >>,
      << LetterOctave("C", 1), LetterOctave("C", 2) >>,
      << LetterOctave("A", 1), LetterOctave("C", 2) >> }

\* The ranges of the random generator, which returns a pitch per draw.
RandomModuleRanges ==
    { r \in ModuleRanges : StepOf(r[2]) - StepOf(r[1]) <= 2 }

\* The probabilities given to the random trigger generator, in percent.
ModuleProbabilities == {0, 50, 100}

\* The scales given to the quantizer: those of QUANTIZER_SCALES and some of one
\* or two letters.
ModuleScales ==
    { QUANTIZER_SCALES[i] : i \in 1..Len(QUANTIZER_SCALES) } \cup
    { << "C" >>, << "B" >>, << "Dsh" >>, << "G", "Db" >> }

\* The pitches the input of the quantizer may return: every letter, in three
\* octaves.
ModuleInputs == { LetterOctave(l, o) : l \in Letters, o \in {-1, 3, 9} }

\* A ramp whose exact value at position 7 is a half, 31 * 7 / 14 = 15.5.
RampOfHalves == RampPitchGenerator(15, LetterOctave("C", -1), LetterOctave("G", 1))

PitchModules ==
    { SquarePitchGenerator(n, r[1], r[2]) : n \in 1..MaxCycle, r \in ModuleRanges } \cup
    { RampPitchGenerator(n, r[1], r[2]) : n \in 1..MaxCycle, r \in ModuleRanges } \cup
    { RampOfHalves } \cup
    { RandomPitchGenerator(r[1], r[2]) : r \in RandomModuleRanges }

TriggerModules ==
    { RandomTriggerGenerator(p) : p \in ModuleProbabilities } \cup
    { ClockDivider(RandomTriggerGenerator(p), f) :
          p \in ModuleProbabilities, f \in 1..MaxCycle }

\* PitchQuantizer::new, its input left to the environment.
QuantizerModules == { [enabled_notes |-> scale] : scale \in ModuleScales }

\* No Sequencer is constructed; a module has been built by its new().
InitModule ==
    /\ queue = << >>
    /\ receiver = "none"
    /\ producer = "none"
    /\ is_playing = FALSE
    /\ pitch_generator = NoModule
    /\ trigger_generator = NoModule
    /\ midi = << >>
    /\ pc = "none"
    /\ pitch = NoPitch
    /\ trigger = "none"
    /\ note = 0
    /\ sent = << >>
    /\ applied = << >>
    /\ sent_at_tick_start = 0
    /\ pitch_fresh = TRUE
    /\ trigger_fresh = TRUE
    /\ ports = 1
    /\ out_port = NoPort
    /\ in_progress = 0
    /\ calls = << >>
    /\ period = NoPeriod
    /\ new_bpm = 0
    /\ ui = NoUi
    /\ \/ \E m \in PitchModules : module = [kind |-> "pitch", m |-> m]
       \/ \E m \in TriggerModules : module = [kind |-> "trigger", m |-> m]
       \/ \E m \in QuantizerModules : module = [kind |-> "quantizer", m |-> m]
    /\ returned = << >>

\* tick() of a pitch generator.
TickPitchModule ==
    /\ module.kind = "pitch"
    /\ Len(returned) < MaxTicks
    /\ \E r \in GeneratorTick(module.m) :
          /\ module' = [module EXCEPT !.m = r.next]
          /\ returned' = Append(returned, r.out)
    /\ UNCHANGED calls
    /\ UNCHANGED runtime_vars

\* Dispatch of TriggerModule::tick.
TriggerModuleTick(m) ==
    IF "factor" \in DOMAIN m THEN ClockDividerTick(m) ELSE RandomTriggerTick(m)

\* tick() of a trigger module.
TickTriggerModule ==
    /\ module.kind = "trigger"
    /\ Len(returned) < MaxTicks
    /\ \E r \in TriggerModuleTick(module.m) :
          /\ module' = [module EXCEPT !.m = r.next]
          /\ returned' = Append(returned, r.out)
          /\ calls' = calls \o r.calls
    /\ UNCHANGED runtime_vars

\* PitchQuantizer::tick once self.input.tick() has returned unquantized.
Quantize(enabled_notes, unquantized) ==
    QuantizeFrom(SortLetters(enabled_notes), 1, unquantized)

\* tick() of a quantizer whose input returns any pitch.
TickQuantizerModule ==
    /\ module.kind = "quantizer"
    /\ Len(returned) < MaxQuantizerTicks
    /\ \E unquantized \in ModuleInputs :
          LET q == Quantize(module.m.enabled_notes, unquantized)
          IN  /\ q.ok
              /\ module' = [module EXCEPT !.m.enabled_notes = SortLetters(@)]
              /\ returned' = Append(returned, [unquantized |-> unquantized, out |-> q.out])
    /\ UNCHANGED calls
    /\ UNCHANGED runtime_vars

NextModule ==
    \/ TickPitchModule
    \/ TickTriggerModule
    \/ TickQuantizerModule

SpecModule == InitModule /\ [][NextModule]_vars

(***************************************************************************)
(* The trigger modules on their own and inside the runtime.                *)
(***************************************************************************)
\* Configurations that differ in the trigger graph: probability 0 undivided and
\* probability 1 divided by two, over a constant pitch graph.
TriggerConfigs ==
    { Config("RampUp", 1, LetterOctave("C", 3), LetterOctave("C", 3),
             "RampUp", 1, LetterOctave("C", -1), LetterOctave("C", -1),
             0, 1, MAJOR_SCALE_NOTES, 120),
      Config("RampUp", 1, LetterOctave("C", 3), LetterOctave("C", 3),
             "RampUp", 1, LetterOctave("C", -1), LetterOctave("C", -1),
             100, 2, MAJOR_SCALE_NOTES, 120) }

\* Either a trigger module built by its new(), or a constructed runtime.
InitTrigger ==
    \/ /\ InitModule
       /\ module.kind = "trigger"
    \/ InitWith(TriggerConfigs)

NextTrigger ==
    \/ TickTriggerModule
    \/ TickStart
    \/ DrainApply
    \/ DrainEnd
    \/ PlayStopped
    \/ PlayTick
    \/ GateOn
    \/ GateOff
    \/ NoteOff
    \/ start
    \/ stop
    \/ \E config \in TriggerConfigs : update_trigger_generator(config)

SpecTrigger == InitTrigger /\ [][NextTrigger]_vars

\* The steps of an execution of tick(), from the drain loop to the return.
TickRuns ==
    \/ DrainApply
    \/ DrainEnd
    \/ PlayStopped
    \/ PlayTick
    \/ GateOn
    \/ GateOff
    \/ NoteOff

\* The runtime with a control surface that sends every kind of command.
NextLive ==
    \/ TickStart
    \/ DrainApply
    \/ DrainEnd
    \/ PlayStopped
    \/ PlayTick
    \/ GateOn
    \/ GateOff
    \/ NoteOff
    \/ start
    \/ stop
    \/ \E config \in TriggerConfigs : update_pitch_generator(config)
    \/ \E config \in TriggerConfigs : update_trigger_generator(config)

\* The timer thread keeps running: an execution of tick() that can take its
\* next step takes it, the 5 ms sleep included.  The control surface and the
\* timer are under no obligation.
SpecLive == InitWith(TriggerConfigs) /\ [][NextLive]_vars /\ WF_vars(TickRuns)

(***************************************************************************)
(* main.rs: the control panel.  The f32 fields of SequencerModel hold whole *)
(* numbers (every handler rounds what it stores) and are written here as    *)
(* integers, the trigger probability in percent.  What a slider yields is   *)
(* a rational [num, den] within the slider's range.                         *)
(***************************************************************************)
MELODY_MIN_PITCH_DEFAULT_VALUE == LetterOctave("C", 3)

MELODY_MAX_PITCH_DEFAULT_VALUE == LetterOctave("C", 5)

MELODY_PITCH_GENERATOR_TYPE_DEFAULT_VALUE == 0

MELODY_PITCH_GENERATOR_CYCLE_LENGTH_DEFAULT_VALUE == 64

TRANSPOSITION_MIN_PITCH_DEFAULT_VALUE == 0

TRANSPOSITION_MAX_PITCH_DEFAULT_VALUE == 12

TRANSPOSITION_PITCH_GENERATOR_TYPE_DEFAULT_VALUE == 1

TRANSPOSITION_PITCH_GENERATOR_CYCLE_LENGTH_DEFAULT_VALUE == 128

BPM_DEFAULT_VALUE == 120

\* Percent.
TRIGGER_PROBABILITY_DEFAULT_VALUE == 100

TRIGGER_PROBABILITY_MIN_VALUE == 0

TRIGGER_PROBABILITY_MAX_VALUE == 100

CLOCK_DIVIDER_FACTOR_DEFAULT_VALUE == 16

CLOCK_DIVIDER_FACTOR_MIN_VALUE == 1

CLOCK_DIVIDER_FACTOR_MAX_VALUE == 24

PITCH_GENERATOR_CYCLE_LENGTH_MIN_VALUE == 1

PITCH_GENERATOR_CYCLE_LENGTH_MAX_VALUE == 128

PITCH_GENERATOR_TYPE_NAMES == << "Ramp", "Square", "Random" >>

QUANTIZER_SCALE_INDEX_DEFAULT_VALUE == 1

\* PitchGeneratorType::from_str on the names of the drop-down list.
PitchGeneratorTypeFromStr(name) ==
    CASE name = "Random" -> "Random"
      [] name = "Ramp" -> "RampUp"
      [] name = "Square" -> "Square"

\* pitch_generator_type_from_index; indices count from 0.
pitch_generator_type_from_index(idx) ==
    PitchGeneratorTypeFromStr(PITCH_GENERATOR_TYPE_NAMES[idx + 1])

\* impl From<SequencerModel> for SequencerConfiguration
FromModel(model) ==
    Config(pitch_generator_type_from_index(model.melody_pitch_generator_type_index),
           model.melody_cycle_length,
           ToLetterOctave(model.melody_min_pitch, 1),
           ToLetterOctave(model.melody_max_pitch, 1),
           pitch_generator_type_from_index(model.transposition_pitch_generator_type_index),
           model.transposition_cycle_length,
           ToLetterOctave(model.transposition_min_pitch, 1),
           ToLetterOctave(model.transposition_max_pitch, 1),
           model.trigger_probability,
           model.clock_divider_factor,
           QUANTIZER_SCALES[model.quantizer_scale_index + 1],
           model.bpm)

\* The SequencerModel that model() builds.
DefaultSequencerModel ==
    [melody_min_pitch |-> StepOf(MELODY_MIN_PITCH_DEFAULT_VALUE),
     melody_max_pitch |-> StepOf(MELODY_MAX_PITCH_DEFAULT_VALUE),
     melody_pitch_generator_type_index |-> MELODY_PITCH_GENERATOR_TYPE_DEFAULT_VALUE,
     melody_cycle_length |-> MELODY_PITCH_GENERATOR_CYCLE_LENGTH_DEFAULT_VALUE,
     transposition_min_pitch |-> TRANSPOSITION_MIN_PITCH_DEFAULT_VALUE,
     transposition_max_pitch |-> TRANSPOSITION_MAX_PITCH_DEFAULT_VALUE,
     transposition_pitch_generator_type_index |->
         TRANSPOSITION_PITCH_GENERATOR_TYPE_DEFAULT_VALUE,
     transposition_cycle_length |-> TRANSPOSITION_PITCH_GENERATOR_CYCLE_LENGTH_DEFAULT_VALUE,
     trigger_probability |-> TRIGGER_PROBABILITY_DEFAULT_VALUE,
     clock_divider_factor |-> CLOCK_DIVIDER_FACTOR_DEFAULT_VALUE,
     quantizer_scale_index |-> QUANTIZER_SCALE_INDEX_DEFAULT_VALUE,
     bpm |-> BPM_DEFAULT_VALUE]

\* model(): the Sequencer is constructed, Playing, from the default model.
InitPanel ==
    /\ InitWithUi({FromModel(DefaultSequencerModel)},
                  [kind |-> "panel", sequencer_model |-> DefaultSequencerModel,
                   is_playing |-> TRUE, handler |-> "none"])
    /\ is_playing = TRUE

\* What a slider over min..max may yield: its ends, the values half a unit
\* inside them, the middle, and the values round a multiple of 16.
SliderValues(min, max) ==
    { v \in { << 2 * min, 2 >>, << 2 * min + 1, 2 >>, << min + max, 2 >>,
              << 2 * max - 1, 2 >>, << 2 * max, 2 >>,
              << 31, 2 >>, << 32, 2 >>, << 34, 2 >> } :
          2 * min <= v[1] /\ v[1] <= 2 * max }

\* `value as u32` for a value that is not negative.
AsU32(v) == v[1] \div v[2]

\* Variant: the masking alone, which rounds down.
RoundUpTo16Down(n) == (n \div 16) * 16

\* `n + 15 & !15`, which is (n + 15) & !15: the next multiple of 16.
RoundUpTo16(n) == ((n + 15) \div 16) * 16

\* What the handlers of update() leave alone.
panel_frame == << ports, out_port, module, returned, period, new_bpm >>

\* update() is between two calls of its handlers: none of them is in progress.
HandlerIdle == ui.kind = "panel" /\ ui.handler = "none"

\* A handler stores a changed model and calls update_pitch_generator with it.
UpdatePitch(new_model) ==
    /\ HandlerIdle
    /\ Len(sent) < MaxSends
    /\ ui' = [ui EXCEPT !.sequencer_model = new_model]
    /\ Send(SetPitchGeneratorCommand(FromModel(new_model)))
    /\ UNCHANGED panel_frame

\* A handler stores a changed model and calls update_trigger_generator with it.
UpdateTrigger(new_model) ==
    /\ HandlerIdle
    /\ Len(sent) < MaxSends
    /\ ui' = [ui EXCEPT !.sequencer_model = new_model]
    /\ Send(SetTriggerGeneratorCommand(FromModel(new_model)))
    /\ UNCHANGED panel_frame

\* The drop-down list of the melody generator type.
MelodyTypeSelected ==
    /\ HandlerIdle
    /\ \E idx \in 0..(Len(PITCH_GENERATOR_TYPE_NAMES) - 1) :
          UpdatePitch([ui.sequencer_model EXCEPT !.melody_pitch_generator_type_index = idx])

\* The range slider of the melody pitch; an edge is not dragged past the other.
MelodyRangeChanged ==
    /\ HandlerIdle
    /\ \E v \in SliderValues(StepOf(MELODY_PITCH_MIN_VALUE), StepOf(MELODY_PITCH_MAX_VALUE)) :
          LET new_value == Round(v[1], v[2])
          IN  \/ /\ new_value <= ui.sequencer_model.melody_max_pitch
                 /\ ui.sequencer_model.melody_min_pitch # new_value
                 /\ UpdatePitch([ui.sequencer_model EXCEPT !.melody_min_pitch = new_value])
              \/ /\ new_value >= ui.sequencer_model.melody_min_pitch
                 /\ ui.sequencer_model.melody_max_pitch # new_value
                 /\ UpdatePitch([ui.sequencer_model EXCEPT !.melody_max_pitch = new_value])

\* The slider of the melody cycle length, shown unless the type is Random.
MelodyCycleLengthChanged ==
    /\ HandlerIdle
    /\ pitch_generator_type_from_index(
           ui.sequencer_model.melody_pitch_generator_type_index) # "Random"
    /\ \E v \in SliderValues(PITCH_GENERATOR_CYCLE_LENGTH_MIN_VALUE,
                            PITCH_GENERATOR_CYCLE_LENGTH_MAX_VALUE) :
          LET new_value == RoundUpTo16(AsU32(v))
          IN  /\ ui.sequencer_model.melody_cycle_length # new_value
              /\ UpdatePitch([ui.sequencer_model EXCEPT !.melody_cycle_length = new_value])

\* The drop-down list of the transposition generator type.
TranspositionTypeSelected ==
    /\ HandlerIdle
    /\ \E idx \in 0..(Len(PITCH_GENERATOR_TYPE_NAMES) - 1) :
          UpdatePitch([ui.sequencer_model EXCEPT
                           !.transposition_pitch_generator_type_index = idx])

\* The range slider of the transposition.
TranspositionRangeChanged ==
    /\ HandlerIdle
    /\ \E v \in SliderValues(TRANSPOSITION_MIN_VALUE, TRANSPOSITION_MAX_VALUE) :
          LET new_value == Round(v[1], v[2])
          IN  \/ /\ new_value <= ui.sequencer_model.transposition_max_pitch
                 /\ ui.sequencer_model.transposition_min_pitch # new_value
                 /\ UpdatePitch([ui.sequencer_model EXCEPT
                                     !.transposition_min_pitch = new_value])
              \/ /\ new_value >= ui.sequencer_model.transposition_min_pitch
                 /\ ui.sequencer_model.transposition_max_pitch # new_value
                 /\ UpdatePitch([ui.sequencer_model EXCEPT
                                     !.transposition_max_pitch = new_value])

\* The slider of the transposition cycle length, shown unless the type is Random.
TranspositionCycleLengthChanged ==
    /\ HandlerIdle
    /\ pitch_generator_type_from_index(
           ui.sequencer_model.transposition_pitch_generator_type_index) # "Random"
    /\ \E v \in SliderValues(PITCH_GENERATOR_CYCLE_LENGTH_MIN_VALUE,
                            PITCH_GENERATOR_CYCLE_LENGTH_MAX_VALUE) :
          LET new_value == RoundUpTo16(AsU32(v))
          IN  /\ ui.sequencer_model.transposition_cycle_length # new_value
              /\ UpdatePitch([ui.sequencer_model EXCEPT
                                  !.transposition_cycle_length = new_value])

\* The drop-down list of the quantizer scale.
QuantizerScaleSelected ==
    /\ HandlerIdle
    /\ \E idx \in 0..(Len(QUANTIZER_SCALES) - 1) :
          UpdatePitch([ui.sequencer_model EXCEPT !.quantizer_scale_index = idx])

\* The slider of the trigger probability: `(value * 100.0).round() / 100.0`,
\* the value being v / 100 here.
TriggerProbabilityChanged ==
    /\ HandlerIdle
    /\ \E v \in SliderValues(TRIGGER_PROBABILITY_MIN_VALUE, TRIGGER_PROBABILITY_MAX_VALUE) :
          LET new_value == Round(v[1], v[2])
          IN  /\ ui.sequencer_model.trigger_probability # new_value
              /\ UpdateTrigger([ui.sequencer_model EXCEPT !.trigger_probability = new_value])

\* The slider of the clock divider factor.
ClockDividerFactorChanged ==
    /\ HandlerIdle
    /\ \E v \in SliderValues(CLOCK_DIVIDER_FACTOR_MIN_VALUE, CLOCK_DIVIDER_FACTOR_MAX_VALUE) :
          LET new_value == Round(v[1], v[2])
          IN  /\ ui.sequencer_model.clock_divider_factor # new_value
              /\ UpdateTrigger([ui.sequencer_model EXCEPT !.clock_divider_factor = new_value])

\* key_pressed(Space) and the Play/Pause toggle: model.is_playing is flipped and
\* start() or stop() called.
PlayingToggled ==
    /\ HandlerIdle
    /\ Len(sent) < MaxSends
    /\ ui' = [ui EXCEPT !.is_playing = ~ui.is_playing]
    /\ Send(IF ui.is_playing THEN StopCommand ELSE StartCommand)
    /\ UNCHANGED panel_frame

\* The Reset button, first statement of its handler: update_pitch_generator
\* with the model as it is.  The timer thread runs on while the handler does.
ResetPressed ==
    /\ HandlerIdle
    /\ Len(sent) + 1 < MaxSends
    /\ ui' = [ui EXCEPT !.handler = "reset"]
    /\ Send(SetPitchGeneratorCommand(FromModel(ui.sequencer_model)))
    /\ UNCHANGED panel_frame

\* The Reset button, second statement of its handler: update_trigger_generator
\* with the same model.
ResetUpdatesTrigger ==
    /\ ui.kind = "panel"
    /\ ui.handler = "reset"
    /\ ui' = [ui EXCEPT !.handler = "none"]
    /\ Send(SetTriggerGeneratorCommand(FromModel(ui.sequencer_model)))
    /\ UNCHANGED panel_frame

NextPanel ==
    \/ MelodyTypeSelected
    \/ MelodyRangeChanged
    \/ MelodyCycleLengthChanged
    \/ TranspositionTypeSelected
    \/ TranspositionRangeChanged
    \/ TranspositionCycleLengthChanged
    \/ QuantizerScaleSelected
    \/ TriggerProbabilityChanged
    \/ ClockDividerFactorChanged
    \/ PlayingToggled
    \/ ResetPressed
    \/ ResetUpdatesTrigger

SpecPanel == InitPanel /\ [][NextPanel]_vars

(***************************************************************************)
(* Properties of the runtime.                                              *)
(***************************************************************************)
\* The commands of the applied history, in order.
AppliedCommands == [i \in 1..Len(applied) |-> applied[i].cmd]

\* C1: the commands applied so far followed by the commands still queued are
\* exactly the commands sent, in send order (none lost, duplicated or
\* reordered), and once the drain phase of a tick is over every command sent
\* before that tick began has been applied.
C1_CommandOrdering ==
    /\ AppliedCommands \o queue = sent
    /\ pc \in {"play", "gate", "hold"} => Len(applied) >= sent_at_tick_start

\* Two different commands sent before a tick began have been applied by its drain.
C1_Witness ==
    /\ pc = "play"
    /\ sent_at_tick_start >= 2
    /\ Len(applied) >= 2
    /\ applied[1].cmd # applied[2].cmd

\* C2: a tick that finds the play state Stopped after its drain phase advances
\* neither graph and sends no MIDI message: it returns with all three unchanged.
C2_StoppedGatesTick ==
    [][(pc = "play" /\ ~is_playing) =>
          /\ pitch_generator' = pitch_generator
          /\ trigger_generator' = trigger_generator
          /\ midi' = midi
          /\ pc' \in {"play", "idle"}]_vars

\* A Stopped tick is past its drain while the graphs it holds have been advanced
\* by earlier Playing ticks.
C2_Witness ==
    /\ pc = "play"
    /\ ~is_playing
    /\ ~pitch_fresh
    /\ ~trigger_fresh
    /\ pitch_generator.input.left.counter # 0
    /\ trigger_generator.counter # 0

\* C3: a tick that finds the play state Playing after its drain phase ticks the
\* pitch graph once and the trigger graph once, whatever the trigger returns, and
\* the rest of the tick leaves both graphs alone.
C3_PlayingTicksOnce ==
    [][/\ (pc = "play" /\ is_playing /\ pc' # pc) =>
              /\ pc' = "gate"
              /\ \E p \in PitchQuantizerTick(pitch_generator) :
                    p.next = pitch_generator' /\ p.out = pitch'
              /\ \E t \in ClockDividerTick(trigger_generator) :
                    t.next = trigger_generator' /\ t.out = trigger'
              /\ pitch_generator.input.left.type = "RampUp" =>
                    pitch_generator'.input.left.counter =
                        (pitch_generator.input.left.counter + 1)
                            % pitch_generator.input.left.cycle_length
              /\ trigger_generator'.counter = (trigger_generator.counter % trigger_generator.factor) + 1
       /\ pc \in {"gate", "hold"} =>
              /\ pitch_generator' = pitch_generator
              /\ trigger_generator' = trigger_generator]_vars

\* A Playing tick whose trigger is Off has advanced the ramp of the pitch graph.
C3_Witness ==
    /\ pc = "gate"
    /\ trigger = "Off"
    /\ pitch_generator.input.left.type = "RampUp"
    /\ pitch_generator.input.left.counter = 2
    /\ trigger_generator.counter = 2

\* C4: the play state is Stopped or Playing; applying Start leaves it Playing and
\* applying Stop leaves it Stopped, from either state; applying any other command,
\* and every step that applies no command, leaves it as it is.
C4_PlayStateMachine ==
    [][/\ is_playing \in BOOLEAN
       /\ is_playing' \in BOOLEAN
       /\ IF Len(applied') = Len(applied) + 1
          THEN LET command == applied'[Len(applied')].cmd
               IN  CASE command.kind = "Start" -> is_playing'
                     [] command.kind = "Stop" -> ~is_playing'
                     [] OTHER -> is_playing' = is_playing
          ELSE is_playing' = is_playing]_vars

\* Start;Start: the second Start has been applied to a runtime that was Playing.
C4_Witness ==
    /\ Len(applied) >= 2
    /\ applied[1].cmd.kind = "Start"
    /\ applied[2].cmd.kind = "Start"
    /\ applied[2].was_playing
    /\ is_playing

\* The graph of the last SetPitchGenerator applied, if there is one.
LastPitchSet ==
    LET S == { i \in 1..Len(applied) : applied[i].cmd.kind = "SetPitchGenerator" }
    IN  IF S = {} THEN << >>
        ELSE << applied[CHOOSE i \in S : \A j \in S : j <= i].cmd.pg >>

\* The graph of the last SetTriggerGenerator applied, if there is one.
LastTriggerSet ==
    LET S == { i \in 1..Len(applied) : applied[i].cmd.kind = "SetTriggerGenerator" }
    IN  IF S = {} THEN << >>
        ELSE << applied[CHOOSE i \in S : \A j \in S : j <= i].cmd.tg >>

\* C5: a graph replacement is applied when it is dequeued, in either play state:
\* until the next Playing tick the runtime holds the graph of the last
\* replacement applied, of each kind, in the state the builder gave it.
C5_ReplacementStateIndependent ==
    /\ (pitch_fresh /\ LastPitchSet # << >>) => pitch_generator = LastPitchSet[1]
    /\ (trigger_fresh /\ LastTriggerSet # << >>) => trigger_generator = LastTriggerSet[1]
    /\ pitch_fresh =>
          /\ pitch_generator.input.left.counter = 0
          /\ pitch_generator.input.right.counter = 0
    /\ trigger_fresh => trigger_generator.counter = 0

\* A pitch graph was replaced while the runtime was Stopped, a later Start was
\* applied, and the tick about to play holds that graph untouched.
C5_Witness ==
    /\ pc = "play"
    /\ is_playing
    /\ pitch_fresh
    /\ \E i, j \in 1..Len(applied) :
          /\ i < j
          /\ applied[i].cmd.kind = "SetPitchGenerator"
          /\ ~applied[i].was_playing
          /\ applied[j].cmd.kind = "Start"
          /\ ~applied[j].was_playing
          /\ pitch_generator = applied[i].cmd.pg

\* C6: the MIDI stream is a sequence of pairs [0x90, n, 0x64], [0x80, n, 0x64];
\* only during the hold of a tick does it end with a note-on, whose note is that
\* of the tick's pitch.  A tick whose trigger is On appends the note-on and then
\* the matching note-off, a tick whose trigger is Off appends nothing, and no
\* other step appends anything.
C6_MidiPairing ==
    /\ [](/\ \A i \in 1..Len(midi) :
                IF i % 2 = 1
                THEN midi[i][1] = 144 /\ midi[i][2] \in 0..255 /\ midi[i][3] = 100
                ELSE midi[i] = << 128, midi[i - 1][2], 100 >>
          /\ pc = "hold" <=> Len(midi) % 2 = 1
          /\ pc = "hold" => midi[Len(midi)][2] = AsU8(StepOf(pitch)))
    /\ [][/\ (pc = "gate" /\ trigger = "Off") => midi' = midi
          /\ (pc = "gate" /\ trigger = "On" /\ pc' # pc) =>
                 /\ pc' = "hold"
                 /\ midi' = Append(midi, << 144, AsU8(StepOf(pitch)), 100 >>)
          /\ (pc = "hold" /\ pc' # pc) =>
                 /\ pc' = "idle"
                 /\ midi' = Append(midi, << 128, midi[Len(midi)][2], 100 >>)
          /\ pc \notin {"gate", "hold"} => midi' = midi]_vars

\* Two ticks have each sent their pair, for different notes.
C6_Witness ==
    /\ pc = "idle"
    /\ Len(midi) = 4
    /\ midi[1][2] # midi[3][2]

\* C7: a call of the control surface appends one command of its kind to the
\* queue and changes nothing of the runtime, and no call waits for room in the
\* queue, whatever the queue holds.
C7_ControlSurface ==
    /\ [][/\ sent' # sent =>
                 /\ Len(sent') = Len(sent) + 1
                 /\ SubSeq(sent', 1, Len(sent)) = sent
                 /\ queue' = Append(queue, sent'[Len(sent')])
                 /\ UNCHANGED thread_vars
          /\ start => sent'[Len(sent')].kind = "Start"
          /\ stop => sent'[Len(sent')].kind = "Stop"
          /\ \A config \in ValidConfigs :
                 /\ update_pitch_generator(config) =>
                        sent'[Len(sent')] = [kind |-> "SetPitchGenerator",
                                             pg |-> build_pitch_generator(config)]
                 /\ update_trigger_generator(config) =>
                        sent'[Len(sent')] = [kind |-> "SetTriggerGenerator",
                                             tg |-> build_trigger_generator(config)]
          /\ sent' = sent => queue' = queue \/ queue' = Tail(queue)]_vars
    /\ [](producer # "blocked")

\* A call was made while the queue was not empty: the queue holds two commands.
C7_Witness == Len(queue) >= 2 /\ queue[1] # queue[2]

C9_EmptyScaleRejected ==
    /\ \A i \in 1..Len(sent) :
          sent[i].kind = "SetPitchGenerator" => sent[i].pg.enabled_notes # << >>
    /\ pitch_generator.enabled_notes # << >>
    /\ \A p \in PitchQuantizerTick(pitch_generator) : p.ok

\* C10: a call of the control surface returns normally, also once the receiver
\* has been dropped.
C10_SendAfterDisposeReturns == producer = "running"

\* C11: with no MIDI output port construction aborts: the timer is never
\* scheduled, so no tick runs, no command is sent or applied and nothing is
\* connected; with ports, the runtime runs only while connected to the first
\* enumerated port, and an aborted construction has connected to no other.
C11_NoPortIsFatal ==
    /\ ports = 0 =>
           /\ pc \in {"new", "aborted"}
           /\ out_port = NoPort
           /\ sent = << >> /\ applied = << >> /\ midi = << >>
    /\ pc = "aborted" =>
           /\ out_port = NoPort
           /\ producer = "panicked"
           /\ sent = << >> /\ applied = << >> /\ midi = << >>
    /\ pc \notin {"new", "aborted"} => ports > 0 /\ out_port = 0

\* Construction was attempted with no port and has aborted.
C11_Witness == ports = 0 /\ pc = "aborted" /\ producer = "panicked"

\* The letters of a scale and their letter classes (semitones within the octave).
ScaleLetters(notes) == { notes[j] : j \in 1..Len(notes) }

ScaleClasses(notes) == { LetterToStep(notes[j]) : j \in 1..Len(notes) }

\* C12: every pitch a quantizer of a non-empty scale returns, whatever pitch its
\* input returned, has a letter of the scale, hence a letter class of the scale.
C12_QuantizerMembership ==
    module.kind = "quantizer" =>
        \A i \in 1..Len(returned) :
            /\ returned[i].out.letter \in ScaleLetters(module.m.enabled_notes)
            /\ LetterToStep(returned[i].out.letter) \in ScaleClasses(module.m.enabled_notes)

\* A pitch below the scale's only note was snapped up to it: A# to B.
C12_Witness ==
    /\ module.kind = "quantizer"
    /\ module.m.enabled_notes = << "B" >>
    /\ Len(returned) = 1
    /\ returned[1].unquantized = LetterOctave("Ash", 3)
    /\ returned[1].out = LetterOctave("B", 3)

\* C13: a pitch whose letter class is in the scale is returned as it is, with
\* the same letter and the same octave, and quantizing the returned pitch again
\* with the same scale returns it as it is.
C13_QuantizerIdempotence ==
    module.kind = "quantizer" =>
        \A i \in 1..Len(returned) :
            LET u == returned[i].unquantized
                out == returned[i].out
            IN  LetterToStep(u.letter) \in ScaleClasses(module.m.enabled_notes) =>
                    /\ out.letter = u.letter
                    /\ out.octave = u.octave
                    /\ Quantize(module.m.enabled_notes, out) = [ok |-> TRUE, out |-> out]

\* The lowest entry of a scale.
LowestNote(notes) ==
    CHOOSE n \in ScaleLetters(notes) :
        \A other \in ScaleLetters(notes) : LetterOrd(n) <= LetterOrd(other)

\* C14: when every entry of the scale has a letter class below the input's, the
\* quantizer returns the lowest entry of the scale one octave above the input.
C14_QuantizerWrap ==
    module.kind = "quantizer" =>
        \A i \in 1..Len(returned) :
            LET u == returned[i].unquantized
            IN  (\A c \in ScaleClasses(module.m.enabled_notes) : c < LetterToStep(u.letter)) =>
                    returned[i].out =
                        LetterOctave(LowestNote(module.m.enabled_notes), u.octave + 1)

\* Scale {C}, input C# of octave 3: C of octave 4 was returned.
C14_Witness ==
    /\ module.kind = "quantizer"
    /\ module.m.enabled_notes = << "C" >>
    /\ Len(returned) = 1
    /\ returned[1].unquantized = LetterOctave("Csh", 3)
    /\ returned[1].out = LetterOctave("C", 4)

\* C15: the k-th tick of a freshly built square generator returns the pitch of
\* min when ((k - 1) mod cycle_length) + 1 <= cycle_length div 2 and the pitch
\* of max otherwise.
C15_SquareSequence ==
    (module.kind = "pitch" /\ module.m.type = "Square") =>
        \A k \in 1..Len(returned) :
            LET g == module.m
                expected == IF ((k - 1) % g.cycle_length) + 1 <= g.cycle_length \div 2
                            THEN g.min ELSE g.max
            IN  /\ StepOf(returned[k]) = expected
                /\ returned[k] = ToLetterOctave(expected, 1)

\* Length 3 from C1 to C2, ticked six times: min, max, max, min, max, max.
C15_Witness ==
    /\ module.kind = "pitch"
    /\ module.m.type = "Square"
    /\ module.m.cycle_length = 3
    /\ returned = << LetterOctave("C", 1), LetterOctave("C", 2), LetterOctave("C", 2),
                     LetterOctave("C", 1), LetterOctave("C", 2), LetterOctave("C", 2) >>

\* C16: the tick at position i (from 0) of a freshly built ramp generator
\* returns the pitch of min + (i mod cycle_length) * (max - min) / (cycle_length - 1)
\* when cycle_length > 1, and the pitch of min when cycle_length = 1.
C16_RampValues ==
    (module.kind = "pitch" /\ module.m.type = "RampUp") =>
        \A k \in 1..Len(returned) :
            LET g == module.m
                i == (k - 1) % g.cycle_length
            IN  returned[k] =
                    IF g.cycle_length > 1
                    THEN ToLetterOctave(g.min * (g.cycle_length - 1) + i * (g.max - g.min),
                                        g.cycle_length - 1)
                    ELSE ToLetterOctave(g.min, 1)

\* Length 4 from C1 to C2, ticked eight times: C1, E1, G#1, C2, twice.
C16_Witness ==
    /\ module.kind = "pitch"
    /\ module.m.type = "RampUp"
    /\ module.m.cycle_length = 4
    /\ returned = << LetterOctave("C", 1), LetterOctave("E", 1), LetterOctave("Gsh", 1),
                     LetterOctave("C", 2), LetterOctave("C", 1), LetterOctave("E", 1),
                     LetterOctave("Gsh", 1), LetterOctave("C", 2) >>

\* C17: a freshly built ramp generator of cycle_length >= 2 and min <= max
\* returns the pitch of min at the ticks 0, cycle_length, 2 * cycle_length, ...
\* and the pitch of max at the ticks cycle_length - 1, 2 * cycle_length - 1, ...
C17_RampEndpoints ==
    (/\ module.kind = "pitch"
     /\ module.m.type = "RampUp"
     /\ module.m.cycle_length >= 2
     /\ module.m.min <= module.m.max) =>
        \A k \in 1..Len(returned) :
            LET g == module.m
                i == k - 1
            IN  /\ i % g.cycle_length = 0 => StepOf(returned[k]) = g.min
                /\ i % g.cycle_length = g.cycle_length - 1 => StepOf(returned[k]) = g.max

\* Length 3 from A1 to C2: the tick at position 3 returned min again and the
\* ticks at positions 2 and 5 returned max.
C17_Witness ==
    /\ module.kind = "pitch"
    /\ module.m.type = "RampUp"
    /\ module.m.cycle_length = 3
    /\ module.m.min < module.m.max
    /\ Len(returned) = 6
    /\ returned[4] = LetterOctave("A", 1)
    /\ returned[3] = LetterOctave("C", 2)
    /\ returned[6] = LetterOctave("C", 2)

\* C18: a freshly built clock divider over an always-On generator returns On at
\* the calls 1, factor + 1, 2 * factor + 1, ... and Off at every other call.
C18_ClockDividerPattern ==
    (/\ module.kind = "trigger"
     /\ "factor" \in DOMAIN module.m
     /\ module.m.input.p = 100) =>
        \A k \in 1..Len(returned) :
            returned[k] = IF (k - 1) % module.m.factor = 0 THEN "On" ELSE "Off"

\* Factor 4 over eight calls: On at calls 1 and 5 only.
C18_Witness ==
    /\ module.kind = "trigger"
    /\ "factor" \in DOMAIN module.m
    /\ module.m.factor = 4
    /\ module.m.input.p = 100
    /\ returned = << "On", "Off", "Off", "Off", "On", "Off", "Off", "Off" >>

\* C19: a random trigger generator of probability 0 returns Off at every call
\* and one of probability 1 returns On at every call; in the runtime, a Playing
\* tick with probability 0 gets Off and sends nothing, and a Playing tick with
\* probability 1 gets On, and sends a note, exactly when the clock divider
\* forwards (its counter is a multiple of its factor).
C19_RandomTriggerExtremes ==
    /\ []((module.kind = "trigger" /\ "factor" \notin DOMAIN module.m) =>
              /\ module.m.p = 0 => \A k \in 1..Len(returned) : returned[k] = "Off"
              /\ module.m.p = 100 => \A k \in 1..Len(returned) : returned[k] = "On")
    /\ [][/\ (pc = "play" /\ pc' = "gate") =>
                 LET d == trigger_generator
                 IN  /\ d.input.p = 0 => trigger' = "Off"
                     /\ d.input.p = 100 => (trigger' = "On" <=> d.counter % d.factor = 0)
          /\ (pc = "gate" /\ pc' # "gate") =>
                 /\ trigger_generator.input.p = 0 => midi' = midi
                 /\ trigger_generator.input.p = 100 =>
                        (midi' # midi <=> trigger_generator.counter = 1)]_vars

\* Probability 1 divided by two: a note has been sent and a later Playing tick,
\* which the divider did not forward, got Off.
C19_Witness ==
    /\ pc = "gate"
    /\ trigger_generator.input.p = 100
    /\ trigger_generator.factor = 2
    /\ trigger = "Off"
    /\ Len(midi) = 2

\* C20: every value a random pitch generator of min < max returns is at least
\* min and below max.
C20_RandomPitchRange ==
    (module.kind = "pitch" /\ module.m.type = "Random" /\ module.m.min < module.m.max) =>
        \A k \in 1..Len(returned) :
            /\ module.m.min <= StepOf(returned[k])
            /\ StepOf(returned[k]) < module.m.max

\* C21: a generator of any kind built with min = max, of any cycle length from 1
\* up, has an outcome at every tick (the random generator does not sample the
\* empty range) and every tick returns the pitch of min.
C21_DegenerateRange ==
    (module.kind = "pitch" /\ module.m.min = module.m.max) =>
        /\ GeneratorTick(module.m) # {}
        /\ \A r \in GeneratorTick(module.m) :
               /\ r.out = ToLetterOctave(module.m.min, 1)
               /\ r.next.min = module.m.min
               /\ r.next.max = module.m.max
        /\ \A k \in 1..Len(returned) :
               /\ returned[k] = ToLetterOctave(module.m.min, 1)
               /\ StepOf(returned[k]) = module.m.min

\* A random generator built with min = max = Eb3 has been ticked to the bound
\* and returned D#3, the same pitch, every time.
C21_Witness ==
    /\ module.kind = "pitch"
    /\ module.m.type = "Random"
    /\ module.m.min = module.m.max
    /\ module.m.min = StepOf(LetterOctave("Eb", 3))
    /\ Len(returned) = MaxTicks
    /\ \A k \in 1..Len(returned) : returned[k] = LetterOctave("Dsh", 3)

\* One tick of a generator that keeps a counter moves the counter one place
\* round its cycle.
TickedOnce(before, after) ==
    /\ after \in { r.next : r \in GeneratorTick(before) }
    /\ before.type # "Random" => after.counter = (before.counter + 1) % before.cycle_length

\* C22: in the graph the runtime holds, the right operand of the adder is the
\* transposition generator and the left one the melody generator, and a Playing
\* tick makes the quantizer tick the adder, which ticks its right operand once,
\* then its left operand once, and returns the sum of the two results (the pitch
\* of the tick is that sum, quantized).
C22_AdderOrdering ==
    /\ [](\E config \in ValidConfigs :
              /\ pitch_generator.input.right.type = config.transposition_pitch_generator_type
              /\ pitch_generator.input.right.min = StepOf(config.transposition_min_pitch)
              /\ pitch_generator.input.right.max = StepOf(config.transposition_max_pitch)
              /\ pitch_generator.input.left.type = config.melody_pitch_generator_type
              /\ pitch_generator.input.left.min = StepOf(config.melody_min_pitch)
              /\ pitch_generator.input.left.max = StepOf(config.melody_max_pitch))
    /\ [][(pc = "play" /\ pc' = "gate") =>
              /\ Len(calls') >= 3
              /\ SubSeq(calls', 1, 3) =
                     << "PitchQuantizer.input", "PitchAdder.right", "PitchAdder.left" >>
              /\ \A i \in 4..Len(calls') : calls'[i] \notin {"PitchAdder.right", "PitchAdder.left"}
              /\ TickedOnce(pitch_generator.input.right, pitch_generator'.input.right)
              /\ TickedOnce(pitch_generator.input.left, pitch_generator'.input.left)
              /\ \E r \in GeneratorTick(pitch_generator.input.right),
                    l \in GeneratorTick(pitch_generator.input.left) :
                     /\ r.next = pitch_generator'.input.right
                     /\ l.next = pitch_generator'.input.left
                     /\ pitch' = Quantize(pitch_generator.enabled_notes,
                                          ToLetterOctave(StepOf(l.out) + StepOf(r.out), 1)).out]_vars

\* The second Playing tick of a graph of a ramp melody and a square transposition
\* has ticked both operands, the transposition first.
C22_Witness ==
    /\ pc = "gate"
    /\ pitch_generator.input.right.type = "Square"
    /\ pitch_generator.input.right.counter = 0
    /\ pitch_generator.input.left.type = "RampUp"
    /\ pitch_generator.input.left.counter = 2
    /\ SubSeq(calls, 1, 3) = << "PitchQuantizer.input", "PitchAdder.right", "PitchAdder.left" >>

\* C23: at most one execution of tick() is in progress: tick() is entered only
\* when no execution is in progress, and the execution that sleeps between
\* note-on and note-off is left only by its own note-off.  The play state, the
\* graphs and the MIDI stream change only in a step of the execution in
\* progress, never in a step of the producer, whose calls change the queue only.
C23_TicksNeverOverlap ==
    /\ [](/\ in_progress \in {0, 1}
          /\ in_progress = 1 <=> pc \in {"drain", "play", "gate", "hold"})
    /\ [][/\ in_progress' > in_progress =>
                 /\ in_progress = 0
                 /\ pc = "idle"
                 /\ pc' = "drain"
          /\ pc = "hold" => pc' \in {"hold", "idle"}
          /\ (\/ is_playing' # is_playing
              \/ pitch_generator' # pitch_generator
              \/ trigger_generator' # trigger_generator
              \/ midi' # midi) =>
                 /\ in_progress = 1
                 /\ sent' = sent
                 /\ producer' = producer
          /\ sent' # sent =>
                 UNCHANGED << is_playing, pitch_generator, trigger_generator, midi, pc,
                              in_progress >>]_vars

\* The second note of a behaviour is being held, the producer having sent two
\* commands since that tick began.
C23_Witness ==
    /\ pc = "hold"
    /\ in_progress = 1
    /\ Len(midi) = 3
    /\ Len(queue) = 2
    /\ sent_at_tick_start = 0

\* C24: call number k of a freshly built clock divider ticks the inner generator
\* when (k - 1) is a multiple of the factor and at no other call; any other call
\* returns Off and leaves the inner generator as it was.  After n calls the inner
\* generator has been ticked ceil(n / factor) times.
C24_ClockDividerIsolation ==
    /\ []((module.kind = "trigger" /\ "factor" \in DOMAIN module.m) =>
              /\ Len(calls) = (Len(returned) + module.m.factor - 1) \div module.m.factor
              /\ \A i \in 1..Len(calls) : calls[i] = "ClockDivider.input")
    /\ [][(module.kind = "trigger" /\ "factor" \in DOMAIN module.m /\ returned' # returned) =>
              LET k == Len(returned')
              IN  IF (k - 1) % module.m.factor = 0
                  THEN calls' = Append(calls, "ClockDivider.input")
                  ELSE /\ calls' = calls
                       /\ returned'[k] = "Off"
                       /\ module'.m.input = module.m.input]_vars

\* Factor 3 over a generator of probability one half, called eight times: the
\* generator was ticked three times, and returned Off at one of them.
C24_Witness ==
    /\ module.kind = "trigger"
    /\ "factor" \in DOMAIN module.m
    /\ module.m.factor = 3
    /\ module.m.input.p = 50
    /\ Len(returned) = 8
    /\ Len(calls) = 3
    /\ returned[4] = "Off"
    /\ returned[7] = "On"

\* C30: the counter of a clock divider of any factor from 1 up is 0 before the
\* first call and from 1 to the factor after every call; in the runtime the
\* counter of the trigger graph is 0 until its first tick and from 1 to the
\* factor afterwards.
C30_ClockDividerCounter ==
    /\ (module.kind = "trigger" /\ "factor" \in DOMAIN module.m) =>
           /\ Len(returned) = 0 => module.m.counter = 0
           /\ Len(returned) > 0 =>
                  /\ 1 <= module.m.counter
                  /\ module.m.counter <= module.m.factor
                  /\ module.m.counter = ((Len(returned) - 1) % module.m.factor) + 1
    /\ module.kind = "none" =>
           /\ trigger_fresh => trigger_generator.counter = 0
           /\ ~trigger_fresh =>
                  /\ 1 <= trigger_generator.counter
                  /\ trigger_generator.counter <= trigger_generator.factor

\* Factor 3, called to the bound: the counter has been reset twice and stands
\* at 2.
C30_Witness ==
    /\ module.kind = "trigger"
    /\ "factor" \in DOMAIN module.m
    /\ module.m.factor = 3
    /\ Len(returned) = 8
    /\ module.m.counter = 2

\* C25: the period of the timer is 60000 / bpm / 24 milliseconds (truncated) for
\* the bpm of the configuration the Sequencer was constructed with, and no step
\* changes it: applying a SetPitchGenerator or a SetTriggerGenerator built from
\* a configuration of another bpm changes the graph it carries and nothing else
\* of the runtime.
C25_ClockPeriodFixed ==
    /\ [](period = 60000 \div (new_bpm * 24))
    /\ [][/\ period' = period
          /\ new_bpm' = new_bpm
          /\ Len(applied') = Len(applied) + 1 =>
                 LET command == applied'[Len(applied')].cmd
                 IN  /\ command.kind = "SetPitchGenerator" =>
                            /\ pitch_generator' = command.pg
                            /\ UNCHANGED << trigger_generator, is_playing, midi, pc >>
                     /\ command.kind = "SetTriggerGenerator" =>
                            /\ trigger_generator' = command.tg
                            /\ UNCHANGED << pitch_generator, is_playing, midi, pc >>]_vars

\* A Sequencer constructed at 120 bpm has applied both replacements built from
\* the configuration of 90 bpm and still ticks every 20 ms.
C25_Witness ==
    /\ new_bpm = 120
    /\ period = 20
    /\ \E config \in ValidConfigs :
          /\ config.bpm = 90
          /\ Len(applied) = 2
          /\ applied[1].cmd = SetPitchGeneratorCommand(config)
          /\ applied[2].cmd = SetTriggerGeneratorCommand(config)
          /\ trigger_generator.factor = config.clock_divider_factor

\* C27: for an input of step s, the quantizer of a non-empty scale returns the
\* pitch of the smallest step t >= s whose letter class is in the scale; so
\* s <= t < s + 12.
C27_QuantizerNearestAbove ==
    module.kind = "quantizer" =>
        \A i \in 1..Len(returned) :
            LET s == StepOf(returned[i].unquantized)
                t == StepOf(returned[i].out)
            IN  /\ s <= t
                /\ t < s + 12
                /\ (t % 12) \in ScaleClasses(module.m.enabled_notes)
                /\ \A below \in s..(t - 1) :
                       (below % 12) \notin ScaleClasses(module.m.enabled_notes)

\* C28: a command is applied only by the drain at the start of a tick.  A
\* command sent once the drain is over is queued and changes nothing the tick
\* works with: the note-on carries the pitch the tick got from the graph it held,
\* and the note-off follows whatever is queued.  The drain of a tick ends only
\* when the queue is empty, so the next tick's drain applies it.
C28_CommandsOnlyInDrain ==
    [][/\ applied' # applied =>
              /\ pc = "drain"
              /\ pc' = "drain"
              /\ queue' = Tail(queue)
       /\ (pc \in {"play", "gate", "hold"} /\ sent' # sent) =>
              /\ queue' = Append(queue, sent'[Len(sent')])
              /\ applied' = applied
              /\ UNCHANGED << is_playing, pitch_generator, trigger_generator, pitch,
                              trigger, note, midi, pc >>
       /\ (pc = "gate" /\ trigger = "On" /\ pc' # pc) =>
              midi' = Append(midi, NoteOnMessage(NoteOf(pitch)))
       /\ (pc = "hold" /\ pc' # pc) =>
              /\ midi' = Append(midi, NoteOffMessage(midi[Len(midi)][2]))
              /\ is_playing' = is_playing
              /\ queue' = queue
       /\ (pc = "drain" /\ pc' = "play") =>
              /\ queue = << >>
              /\ Len(applied) = Len(sent)]_vars

\* A Stop and a replacement of the pitch graph were sent after the drain of the
\* tick whose note is being held; neither has been applied.
C28_Witness ==
    /\ pc = "hold"
    /\ is_playing
    /\ sent_at_tick_start = 0
    /\ applied = << >>
    /\ Len(queue) = 2
    /\ queue[1].kind = "Stop"
    /\ queue[2].kind = "SetPitchGenerator"
    /\ queue[2].pg # pitch_generator

\* C29: applying SetPitchGenerator replaces the pitch graph by the one it
\* carries and leaves the trigger graph, counter included, and the play state
\* as they were; applying SetTriggerGenerator replaces the trigger graph and
\* leaves the pitch graph, counters included, and the play state as they were;
\* applying Start or Stop leaves both graphs as they were.  No application
\* sends a MIDI message.
C29_ReplacementFrame ==
    [][Len(applied') = Len(applied) + 1 =>
          LET command == applied'[Len(applied')].cmd
          IN  /\ midi' = midi
              /\ command.kind = "SetPitchGenerator" =>
                     /\ pitch_generator' = command.pg
                     /\ trigger_generator' = trigger_generator
                     /\ trigger_generator'.counter = trigger_generator.counter
                     /\ is_playing' = is_playing
              /\ command.kind = "SetTriggerGenerator" =>
                     /\ trigger_generator' = command.tg
                     /\ pitch_generator' = pitch_generator
                     /\ pitch_generator'.input.left.counter = pitch_generator.input.left.counter
                     /\ pitch_generator'.input.right.counter = pitch_generator.input.right.counter
                     /\ is_playing' = is_playing
              /\ command.kind \in {"Start", "Stop"} =>
                     /\ pitch_generator' = pitch_generator
                     /\ trigger_generator' = trigger_generator]_vars

\* The pitch graph has just been replaced, after a note was played, while the
\* clock divider of factor 2 stood at 2: the divider still stands at 2.
C29_Witness ==
    /\ pc = "drain"
    /\ Len(applied) >= 1
    /\ applied[Len(applied)].cmd.kind = "SetPitchGenerator"
    /\ pitch_generator = applied[Len(applied)].cmd.pg
    /\ pitch_fresh
    /\ ~trigger_fresh
    /\ trigger_generator.factor = 2
    /\ trigger_generator.counter = 2
    /\ Len(midi) = 2

\* The pitch graph is one whose generators do not underflow cycle_length - 1 and
\* whose quantizer has a note to wrap to.
PitchGraphSound(pg) ==
    /\ pg.input.left.type # "Random" => pg.input.left.cycle_length >= 1
    /\ pg.input.right.type # "Random" => pg.input.right.cycle_length >= 1
    /\ pg.enabled_notes # << >>

\* The trigger graph is one whose divider does not divide by zero and whose
\* generator has a probability.
TriggerGraphSound(tg) ==
    /\ tg.factor >= 1
    /\ tg.input.p \in 0..100

\* C26: the configuration built from the model of the control panel, at the
\* start and after any changes of its widgets, has cycle lengths that are
\* multiples of 16 from 16 to 128, a clock divider factor from 1 to 24, a
\* trigger probability from 0 to 1 and a scale that is not empty; so has every
\* graph sent to the runtime or held by it.
C26_PanelConfigurations ==
    ui.kind = "panel" =>
        LET config == FromModel(ui.sequencer_model)
        IN  /\ config.melody_cycle_length \in { 16 * k : k \in 1..8 }
            /\ config.transposition_cycle_length \in { 16 * k : k \in 1..8 }
            /\ config.clock_divider_factor \in 1..24
            /\ config.trigger_probablilty \in 0..100
            /\ config.quantizer_scale # << >>
            /\ PitchGraphSound(build_pitch_generator(config))
            /\ TriggerGraphSound(build_trigger_generator(config))
            /\ PitchGraphSound(pitch_generator)
            /\ TriggerGraphSound(trigger_generator)
            /\ \A i \in 1..Len(sent) :
                   /\ sent[i].kind = "SetPitchGenerator" => PitchGraphSound(sent[i].pg)
                   /\ sent[i].kind = "SetTriggerGenerator" => TriggerGraphSound(sent[i].tg)

\* The sliders of the melody cycle length and of the clock divider factor were
\* dragged to their lowest values: graphs of cycle length 16 and of factor 1
\* have been sent.
C26_Witness ==
    /\ ui.kind = "panel"
    /\ ui.sequencer_model.melody_cycle_length = 16
    /\ ui.sequencer_model.clock_divider_factor = 1
    /\ Len(sent) = 2
    /\ sent[1].kind = "SetPitchGenerator"
    /\ sent[1].pg.input.left.cycle_length = 16
    /\ sent[2].kind = "SetTriggerGenerator"
    /\ sent[2].tg.factor = 1


(***************************************************************************)
(* The counter of the cyclic pitch generators.                             *)
(***************************************************************************)
\* C31: between the ticks of a ramp or square generator of cycle_length >= 1
\* the counter lies in 0..cycle_length - 1 and equals the number of ticks made
\* modulo cycle_length, so that it is back at 0 after cycle_length ticks and
\* not before, and the pitch returned cycle_length ticks later is the same.
C31_CyclicCounter ==
    (/\ module.kind = "pitch"
     /\ module.m.type \in {"RampUp", "Square"}
     /\ module.m.cycle_length >= 1) =>
        LET g == module.m
        IN  /\ g.counter \in 0..(g.cycle_length - 1)
            /\ g.counter = Len(returned) % g.cycle_length
            /\ \A k \in 1..Len(returned) :
                   k + g.cycle_length <= Len(returned) =>
                       returned[k + g.cycle_length] = returned[k]

\* A square generator of length 4 from C1 to C2 ticked seven times: it went
\* through the reset in the max branch once and stands at 3.
C31_Witness ==
    /\ module.kind = "pitch"
    /\ module.m.type = "Square"
    /\ module.m.cycle_length = 4
    /\ module.m.counter = 3
    /\ returned = << LetterOctave("C", 1), LetterOctave("C", 1), LetterOctave("C", 2),
                     LetterOctave("C", 2), LetterOctave("C", 1), LetterOctave("C", 1),
                     LetterOctave("C", 2) >>


(***************************************************************************)
(* Termination of the drain loop.                                          *)
(***************************************************************************)
\* C32: the drain loop never waits: when it finds the channel empty it can
\* end, it ends without applying anything and the tick goes on to the play
\* phase, the only phase that follows the drain loop.  A command is applied
\* only when the channel holds one, and when the loop ends every command sent
\* so far, those sent while it ran included, has been applied.  With a producer
\* that sends finitely many commands (at most MaxSends), every execution of
\* tick() that has entered the drain loop leaves it and returns.
C32_DrainTermination ==
    /\ [](pc = "drain" /\ queue = << >> => ENABLED DrainEnd)
    /\ [][(pc = "drain" /\ pc' # pc) =>
              /\ queue = << >>
              /\ pc' = "play"
              /\ applied' = applied
              /\ is_playing' = is_playing
              /\ pitch_generator' = pitch_generator
              /\ trigger_generator' = trigger_generator
              /\ queue' = << >>
              /\ Len(applied') = Len(sent')]_vars
    /\ [][(pc = "drain" /\ applied' # applied) => queue # << >>]_vars
    /\ (pc = "drain") ~> (pc = "idle")

\* The drain loop has ended after applying two commands, both sent after
\* tick() was entered.
C32_Witness ==
    /\ pc = "play"
    /\ sent_at_tick_start = 0
    /\ Len(sent) = 2
    /\ Len(applied) = 2
    /\ queue = << >>

====
